---- MODULE Spec2Model ----
(***************************************************************************)
(* A model of calmjs.parse: the rule types (ruletypes.py), the Dispatcher  *)
(* and the walk generator (unparsers/walker.py), driven by the handlers of *)
(* tests/test_unparsers_walker.py.                                         *)
(*                                                                         *)
(* A walk is a Python generator.  The inner generator _walk is modelled by *)
(* the sequence of things it does, in order, while it is being pulled      *)
(* (deferred handler calls, token handler calls yielding a chunk, layout   *)
(* markers, a raised exception); the outer loop of walk and the generator  *)
(* process_layouts are modelled step by step over that sequence.           *)
(***************************************************************************)
EXTENDS Integers, Sequences, FiniteSets, TLC

(***************************************************************************)
(* Bounds of the model.                                                    *)
(***************************************************************************)
\* longest run of adjacent layout markers written into a Block definition
MaxRun == 3
\* largest number of parameters of a generated FuncDecl node
MaxItems == 2

(***************************************************************************)
(* Python values: None, str, int, a Node (by id) and a list of Nodes.      *)
(***************************************************************************)
NoneV == [k |-> "none", s |-> "", i |-> 0, n |-> 0, l |-> <<>>]
StrV(s) == [k |-> "str", s |-> s, i |-> 0, n |-> 0, l |-> <<>>]
IntV(i) == [k |-> "int", s |-> "", i |-> i, n |-> 0, l |-> <<>>]
NodeV(n) == [k |-> "node", s |-> "", i |-> 0, n |-> n, l |-> <<>>]
ListV(l) == [k |-> "list", s |-> "", i |-> 0, n |-> 0, l |-> l]

\* Optional texts (before, after, prev of a layout handler): None or a text.
None == <<>>
Some(x) == <<x>>

(***************************************************************************)
(* The trees handed to walk.  A node is [type, attrs]; nodes are named by  *)
(* an id.  Nodes 1..5 are es5('var a = 1;'), nodes 6..17 are               *)
(* es5('var w = $(window).width();') of the tests.                         *)
(***************************************************************************)
NameOf == <<"a", "b", "c", "d", "e", "f">>

StaticNodes ==
    (1 :> [type |-> "ES5Program", attrs |-> [children |-> ListV(<<2>>)]])
 @@ (2 :> [type |-> "VarStatement", attrs |-> [children |-> ListV(<<3>>)]])
 @@ (3 :> [type |-> "VarDecl",
           attrs |-> [identifier |-> NodeV(4), initializer |-> NodeV(5)]])
 @@ (4 :> [type |-> "Identifier", attrs |-> [value |-> StrV("a")]])
 @@ (5 :> [type |-> "Number", attrs |-> [value |-> StrV("1")]])
 @@ (6 :> [type |-> "ES5Program", attrs |-> [children |-> ListV(<<7>>)]])
 @@ (7 :> [type |-> "VarStatement", attrs |-> [children |-> ListV(<<8>>)]])
 @@ (8 :> [type |-> "VarDecl",
           attrs |-> [identifier |-> NodeV(9), initializer |-> NodeV(10)]])
 @@ (9 :> [type |-> "Identifier", attrs |-> [value |-> StrV("w")]])
 @@ (10 :> [type |-> "FunctionCall",
            attrs |-> [identifier |-> NodeV(11), args |-> NodeV(17)]])
 @@ (11 :> [type |-> "DotAccessor",
            attrs |-> [node |-> NodeV(12), identifier |-> NodeV(16)]])
 @@ (12 :> [type |-> "FunctionCall",
            attrs |-> [identifier |-> NodeV(13), args |-> NodeV(14)]])
 @@ (13 :> [type |-> "Identifier", attrs |-> [value |-> StrV("$")]])
 @@ (14 :> [type |-> "Arguments", attrs |-> [items |-> ListV(<<15>>)]])
 @@ (15 :> [type |-> "Identifier", attrs |-> [value |-> StrV("window")]])
 @@ (16 :> [type |-> "Identifier", attrs |-> [value |-> StrV("width")]])
 @@ (17 :> [type |-> "Arguments", attrs |-> [items |-> ListV(<<>>)]])
    \* var a = 1, b;   (b has no initializer)
 @@ (20 :> [type |-> "ES5Program", attrs |-> [children |-> ListV(<<21>>)]])
 @@ (21 :> [type |-> "VarStatement", attrs |-> [children |-> ListV(<<3, 22>>)]])
 @@ (22 :> [type |-> "VarDecl",
            attrs |-> [identifier |-> NodeV(23), initializer |-> NoneV]])
 @@ (23 :> [type |-> "Identifier", attrs |-> [value |-> StrV("b")]])
    \* var a = 1, b;   (the initializer of b is an empty list)
 @@ (24 :> [type |-> "VarDecl",
            attrs |-> [identifier |-> NodeV(23), initializer |-> ListV(<<>>)]])
 @@ (25 :> [type |-> "VarStatement", attrs |-> [children |-> ListV(<<3, 24>>)]])
 @@ (26 :> [type |-> "ES5Program", attrs |-> [children |-> ListV(<<25>>)]])
    \* a VarDecl whose identifier attribute holds a Number
 @@ (30 :> [type |-> "ES5Program", attrs |-> [children |-> ListV(<<31>>)]])
 @@ (31 :> [type |-> "VarStatement", attrs |-> [children |-> ListV(<<3, 32>>)]])
 @@ (32 :> [type |-> "VarDecl",
            attrs |-> [identifier |-> NodeV(5), initializer |-> NodeV(4)]])
    \* [1,,a] and [,1]
 @@ (40 :> [type |-> "Array", attrs |-> [items |-> ListV(<<5, 41, 4>>)]])
 @@ (41 :> [type |-> "Elision", attrs |-> [value |-> IntV(1)]])
 @@ (42 :> [type |-> "Array", attrs |-> [items |-> ListV(<<43, 5>>)]])
 @@ (43 :> [type |-> "Elision", attrs |-> [value |-> IntV(2)]])
 @@ (44 :> [type |-> "Array", attrs |-> [items |-> ListV(<<>>)]])
    \* [a, 1,,,, b]: an Elision after an Elision
 @@ (52 :> [type |-> "Array", attrs |-> [items |-> ListV(<<4, 5, 41, 43, 23>>)]])
    \* [a, /re/, 1]: a RegEx node, for which the grammars hold no definition
 @@ (45 :> [type |-> "Array", attrs |-> [items |-> ListV(<<4, 46, 5>>)]])
 @@ (46 :> [type |-> "RegEx", attrs |-> [value |-> StrV("/re/")]])
 @@ (47 :> [type |-> "Arguments", attrs |-> [items |-> ListV(<<4, 46, 5>>)]])
 @@ (48 :> [type |-> "VarDecl",
            attrs |-> [identifier |-> NodeV(4), initializer |-> NodeV(46)]])
 @@ (49 :> [type |-> "ES5Program", attrs |-> [children |-> ListV(<<2, 50>>)]])
 @@ (50 :> [type |-> "VarStatement", attrs |-> [children |-> ListV(<<48, 22>>)]])
    \* the Resolve rule applied to a node that is no Identifier
 @@ (55 :> [type |-> "Label", attrs |-> [value |-> StrV("l")]])
 @@ (56 :> [type |-> "Arguments", attrs |-> [items |-> ListV(<<4, 55>>)]])
    \* blocks: { } and { { } }
 @@ (60 :> [type |-> "Block", attrs |-> [body |-> NoneV]])
 @@ (61 :> [type |-> "Block", attrs |-> [body |-> NodeV(60)]])
    \* a Block whose body is an empty list
 @@ (62 :> [type |-> "Block", attrs |-> [body |-> ListV(<<>>)]])
    \* a FuncDecl with a Number among its parameters
 @@ (70 :> [type |-> "FuncDecl",
            attrs |-> [identifier |-> NodeV(4),
                       parameters |-> ListV(<<23, 5, 9>>)]])
    \* function(){ function(){ a } }  function(){ b }
 @@ (200 :> [type |-> "ES5Program", attrs |-> [children |-> ListV(<<201, 204>>)]])
 @@ (201 :> [type |-> "FuncExpr",
             attrs |-> [identifier |-> NoneV, parameters |-> ListV(<<>>),
                        elements |-> ListV(<<202>>)]])
 @@ (202 :> [type |-> "FuncExpr",
             attrs |-> [identifier |-> NoneV, parameters |-> ListV(<<>>),
                        elements |-> ListV(<<4, 4>>)]])
 @@ (204 :> [type |-> "FuncExpr",
             attrs |-> [identifier |-> NoneV, parameters |-> ListV(<<>>),
                        elements |-> ListV(<<23>>)]])
    \* function(b){ }   function(1){ }   function(){ }
 @@ (210 :> [type |-> "FuncExpr",
             attrs |-> [identifier |-> NoneV, parameters |-> ListV(<<23>>),
                        elements |-> ListV(<<>>)]])
 @@ (211 :> [type |-> "FuncExpr",
             attrs |-> [identifier |-> NoneV, parameters |-> ListV(<<5>>),
                        elements |-> ListV(<<>>)]])
 @@ (212 :> [type |-> "FuncExpr",
             attrs |-> [identifier |-> NoneV, parameters |-> ListV(<<>>),
                        elements |-> ListV(<<>>)]])
    \* a  function(){ b }: an Identifier outside every function
 @@ (213 :> [type |-> "ES5Program", attrs |-> [children |-> ListV(<<4, 204>>)]])
    \* the same function twice in one tree
 @@ (214 :> [type |-> "ES5Program", attrs |-> [children |-> ListV(<<204, 204>>)]])
    \* function(){ b }  a: an Identifier after a function
 @@ (215 :> [type |-> "ES5Program", attrs |-> [children |-> ListV(<<204, 4>>)]])

\* FuncDecl nodes 100+n with n parameters, the Identifier nodes 151..150+n
GeneratedNodes ==
    [id \in 100..(100 + MaxItems) |->
        [type |-> "FuncDecl",
         attrs |-> [identifier |-> NodeV(150),
                    parameters |-> ListV([j \in 1..(id - 100) |-> 150 + j])]]]
 @@ [id \in 150..(150 + MaxItems) |->
        [type |-> "Identifier", attrs |-> [value |-> StrV(NameOf[id - 149])]]]

Node == StaticNodes @@ GeneratedNodes

(***************************************************************************)
(* ruletypes.py: the rules.  A rule is [cls, attr, deferred, value, sub]:  *)
(* cls is the class of a Token ("Text", "Attr", ...) or "Layout" for a     *)
(* Layout class used as a marker (value names it); deferred names the      *)
(* Deferred given as the token's attr ("" when attr is a plain name), attr *)
(* the attribute name (of the token, or of its Declare); sub is a value    *)
(* that is itself a definition (JoinAttr, ElisionJoinAttr, Optional).      *)
(***************************************************************************)
Rule(cls, attr, deferred, value, sub) ==
    [cls |-> cls, attr |-> attr, deferred |-> deferred, value |-> value,
     sub |-> sub]
Text(value) == Rule("Text", "", "", value, <<>>)
Attr(attr) == Rule("Attr", attr, "", "", <<>>)
AttrDeclare(attr) == Rule("Attr", attr, "Declare", "", <<>>)
AttrResolve == Rule("Attr", "", "Resolve", "", <<>>)
JoinAttr(attr, sub) == Rule("JoinAttr", attr, "", "", sub)
JoinAttrIter(sub) == Rule("JoinAttr", "", "Iter", "", sub)
JoinAttrDeclare(attr, sub) == Rule("JoinAttr", attr, "Declare", "", sub)
ElisionToken(attr, value) == Rule("ElisionToken", attr, "", value, <<>>)
ElisionJoinAttr(attr, sub) == Rule("ElisionJoinAttr", attr, "", "", sub)
Optional(attr, sub) == Rule("Optional", attr, "", "", sub)
Operator(value) == Rule("Operator", "", "", value, <<>>)
Layout(name) == Rule("Layout", "", "", name, <<>>)
NoRule == Rule("", "", "", "", <<>>)

Space == Layout("Space")
Newline == Layout("Newline")
Indent == Layout("Indent")
Dedent == Layout("Dedent")
PushScope == Layout("PushScope")
PopScope == Layout("PopScope")

children_newline == JoinAttrIter(<<Newline>>)
children_comma == JoinAttrIter(<<Text(","), Space>>)

is_empty(value) == value.k = "none" \/ (value.k = "list" /\ value.l = <<>>)

isinstance_Token(rule) == rule.cls # "Layout"
isinstance_Node(value) == value.k = "node"
isinstance_Identifier(value) ==
    value.k = "node" /\ Node[value.n].type = "Identifier"
isinstance_Elision(id) == Node[id].type = "Elision"

getattr(node, attr) == Node[node].attrs[attr]

RECURSIVE Repeat(_, _)
\* str * int
Repeat(s, n) == IF n <= 0 THEN "" ELSE s \o Repeat(s, n - 1)

(***************************************************************************)
(* walker.py: the Dispatcher.  A handler is named by a string;             *)
(* layout_handlers is split into the entries keyed by a Layout class and   *)
(* the entries keyed by a tuple of Layout classes.                         *)
(***************************************************************************)
NotImplemented == "NotImplemented"
rule_handler_noop == "rule_handler_noop"

Get(table, key) == IF key \in DOMAIN table THEN table[key] ELSE NotImplemented

Dispatcher_call_token(dispatcher) == dispatcher.token_handler
Dispatcher_call_deferred(dispatcher, kind) ==
    Get(dispatcher.deferred_handlers, kind)
Dispatcher_call_layout(dispatcher, name) ==
    Get(dispatcher.layout_handlers, name)
Dispatcher_call_tuple(dispatcher, names) ==
    Get(dispatcher.layout_tuples, names)

HasDefinition(dispatcher, node) ==
    Node[node].type \in DOMAIN dispatcher.definitions
Dispatcher_getitem(dispatcher, node) ==
    dispatcher.definitions[Node[node].type]

(***************************************************************************)
(* What the generator _walk does while it is pulled, in order:             *)
(*   "deferred"  a registered Declare or Resolve handler is called;        *)
(*   "chunk"     the token handler is called and yields its chunk;         *)
(*   "layout"    a LayoutRuleChunk is yielded;                             *)
(*   "error"     an exception is raised (nothing follows it).              *)
(***************************************************************************)
Event(e, key, handler, node, value, rule) ==
    [e |-> e, key |-> key, handler |-> handler, node |-> node,
     value |-> value, rule |-> rule, idx |-> 0]
ErrorEvent(key, node) == Event("error", key, "", node, NoneV, NoRule)

Raised(evs) == Len(evs) > 0 /\ evs[Len(evs)].e = "error"
Then(a, b) == IF Raised(a) THEN a ELSE a \o b

\* the test's replace(dispatcher, node)
replace(dispatcher, node) ==
    LET v == getattr(node, "value").s
    IN  StrV(IF v \in DOMAIN dispatcher.replacement
             THEN dispatcher.replacement[v] ELSE v)

\* the value a registered Resolve handler returns
ResolveReturn(dispatcher, handler, node) ==
    IF handler = "replace" THEN replace(dispatcher, node) ELSE NoneV

RECURSIVE Declare_handle_all(_, _, _)
\* Declare._handle for each item in turn: the type check, then the handler
Declare_handle_all(handler, parent, items) ==
    IF items = <<>> THEN <<>>
    ELSE IF ~isinstance_Identifier(Head(items))
         THEN <<ErrorEvent("TypeError", parent)>>
         ELSE <<Event("deferred", "Declare", handler, Head(items).n, NoneV,
                      NoRule)>>
              \o Declare_handle_all(handler, parent, Tail(items))

\* a deferred call gives the events it causes and the value it returns
\* the attribute is not returned after the handler was called
Declare_call_no_return(rule, dispatcher, node) ==
    LET target == getattr(node, rule.attr)
        handler == Dispatcher_call_deferred(dispatcher, "Declare")
        items == IF target.k = "list"
                 THEN [j \in 1..Len(target.l) |-> NodeV(target.l[j])]
                 ELSE <<target>>
    IN  IF is_empty(target) THEN [ev |-> <<>>, val |-> target]
        ELSE IF handler # NotImplemented
             THEN [ev |-> Declare_handle_all(handler, node, items),
                   val |-> NoneV]
             ELSE [ev |-> <<>>, val |-> target]

Declare_call(rule, dispatcher, node) ==
    LET target == getattr(node, rule.attr)
        handler == Dispatcher_call_deferred(dispatcher, "Declare")
        items == IF target.k = "list"
                 THEN [j \in 1..Len(target.l) |-> NodeV(target.l[j])]
                 ELSE <<target>>
    IN  IF is_empty(target) THEN [ev |-> <<>>, val |-> target]
        ELSE IF handler # NotImplemented
             THEN [ev |-> Declare_handle_all(handler, node, items),
                   val |-> target]
             ELSE [ev |-> <<>>, val |-> target]

\* the handler is called and its return value dropped
Resolve_call_dropping(rule, dispatcher, node) ==
    LET handler == Dispatcher_call_deferred(dispatcher, "Resolve")
    IN  IF ~isinstance_Identifier(NodeV(node))
        THEN [ev |-> <<ErrorEvent("TypeError", node)>>, val |-> NoneV]
        ELSE [ev |-> IF handler # NotImplemented
                     THEN <<Event("deferred", "Resolve", handler, node,
                                  NoneV, NoRule)>>
                     ELSE <<>>,
              val |-> getattr(node, "value")]

Resolve_call(rule, dispatcher, node) ==
    LET handler == Dispatcher_call_deferred(dispatcher, "Resolve")
    IN  IF ~isinstance_Identifier(NodeV(node))
        THEN [ev |-> <<ErrorEvent("TypeError", node)>>, val |-> NoneV]
        ELSE IF handler # NotImplemented
             THEN [ev |-> <<Event("deferred", "Resolve", handler, node,
                                  NoneV, NoRule)>>,
                   val |-> ResolveReturn(dispatcher, handler, node)]
             ELSE [ev |-> <<>>, val |-> getattr(node, "value")]

\* iter(node): the children of the node
Iter_call(rule, dispatcher, node) ==
    [ev |-> <<>>, val |-> getattr(node, "children")]

Attr_getattr(rule, dispatcher, node) ==
    CASE rule.deferred = "Declare" -> Declare_call(rule, dispatcher, node)
      [] rule.deferred = "Resolve" -> Resolve_call(rule, dispatcher, node)
      [] rule.deferred = "Iter" -> Iter_call(rule, dispatcher, node)
      [] OTHER -> [ev |-> <<>>, val |-> getattr(node, rule.attr)]

Operator_getattr(rule, dispatcher, node) ==
    [ev |-> <<>>,
     val |-> IF rule.attr # "" THEN getattr(node, rule.attr)
             ELSE StrV(rule.value)]

\* the test's simple_token_maker: recorded, then one chunk of the value
TokenEvent(rule, dispatcher, node, value) ==
    <<Event("chunk", "", Dispatcher_call_token(dispatcher), node, value,
            rule)>>

RECURSIVE _walk(_, _, _)
RECURSIVE Token_call(_, _, _)
RECURSIVE Token_resolve(_, _, _, _)
RECURSIVE JoinAttr_rest(_, _, _, _)
RECURSIVE ElisionJoinAttr_rest(_, _, _, _, _)

\* a node without a definition is walked with the empty definition
Token_resolve_lenient(rule, dispatcher, node, value) ==
    IF isinstance_Node(value)
    THEN IF HasDefinition(dispatcher, value.n)
         THEN _walk(dispatcher, value.n, Dispatcher_getitem(dispatcher, value.n))
         ELSE <<>>
    ELSE TokenEvent(rule, dispatcher, node, value)

Token_resolve(rule, dispatcher, node, value) ==
    IF isinstance_Node(value)
    THEN IF HasDefinition(dispatcher, value.n)
         THEN _walk(dispatcher, value.n, Dispatcher_getitem(dispatcher, value.n))
         ELSE <<ErrorEvent("KeyError", value.n)>>
    ELSE TokenEvent(rule, dispatcher, node, value)

\* the fetched value is resolved without looking whether it is empty
Attr_call_unguarded(rule, dispatcher, node) ==
    LET g == IF rule.cls = "Operator"
             THEN Operator_getattr(rule, dispatcher, node)
             ELSE Attr_getattr(rule, dispatcher, node)
    IN  IF Raised(g.ev) THEN g.ev
        ELSE g.ev \o Token_resolve(rule, dispatcher, node, g.val)

Attr_call(rule, dispatcher, node) ==
    LET g == IF rule.cls = "Operator"
             THEN Operator_getattr(rule, dispatcher, node)
             ELSE Attr_getattr(rule, dispatcher, node)
    IN  IF Raised(g.ev) \/ is_empty(g.val) THEN g.ev
        ELSE g.ev \o Token_resolve(rule, dispatcher, node, g.val)

Text_call(rule, dispatcher, node) ==
    Token_resolve(rule, dispatcher, node, StrV(rule.value))

JoinAttr_rest(rule, dispatcher, node, nodes) ==
    IF nodes = <<>> THEN <<>>
    ELSE Then(_walk(dispatcher, node, rule.sub),
         Then(Token_resolve(rule, dispatcher, node, NodeV(Head(nodes))),
              JoinAttr_rest(rule, dispatcher, node, Tail(nodes))))

\* the separator is walked before every element, the first included
JoinAttr_call_leading(rule, dispatcher, node) ==
    LET g == Attr_getattr(rule, dispatcher, node)
    IN  IF Raised(g.ev) THEN g.ev
        ELSE IF g.val.k # "list"
             THEN g.ev \o <<ErrorEvent("TypeError", node)>>
             ELSE Then(g.ev, JoinAttr_rest(rule, dispatcher, node, g.val.l))

JoinAttr_call(rule, dispatcher, node) ==
    LET g == Attr_getattr(rule, dispatcher, node)
    IN  IF Raised(g.ev) THEN g.ev
        ELSE IF g.val.k # "list"
             THEN g.ev \o <<ErrorEvent("TypeError", node)>>
             ELSE IF g.val.l = <<>> THEN g.ev
                  ELSE Then(g.ev \o Token_resolve(rule, dispatcher, node,
                                                  NodeV(Head(g.val.l))),
                            JoinAttr_rest(rule, dispatcher, node,
                                          Tail(g.val.l)))

ElisionToken_call(rule, dispatcher, node) ==
    LET g == Attr_getattr(rule, dispatcher, node)
    IN  Then(g.ev, Token_resolve(rule, dispatcher, node,
                                 StrV(Repeat(rule.value, g.val.i))))

\* the ',' and the join value are both left out when either neighbour is
\* an Elision
ElisionJoinAttr_rest_symmetric(rule, dispatcher, node, previous_node, nodes) ==
    IF nodes = <<>> THEN <<>>
    ELSE LET next_node == Head(nodes)
             neither == ~isinstance_Elision(previous_node)
                        /\ ~isinstance_Elision(next_node)
             comma == IF neither
                      THEN <<Head(_walk(dispatcher, next_node, <<Text(",")>>))>>
                      ELSE <<>>
             value == IF neither
                      THEN _walk(dispatcher, node, rule.sub)
                      ELSE <<>>
         IN  Then(comma,
             Then(value,
             Then(Token_resolve(rule, dispatcher, node, NodeV(next_node)),
                  ElisionJoinAttr_rest(rule, dispatcher, node, next_node,
                                       Tail(nodes)))))

ElisionJoinAttr_rest(rule, dispatcher, node, previous_node, nodes) ==
    IF nodes = <<>> THEN <<>>
    ELSE LET next_node == Head(nodes)
             comma == IF ~isinstance_Elision(previous_node)
                      THEN <<Head(_walk(dispatcher, next_node, <<Text(",")>>))>>
                      ELSE <<>>
             value == IF ~isinstance_Elision(next_node)
                      THEN _walk(dispatcher, node, rule.sub)
                      ELSE <<>>
         IN  Then(comma,
             Then(value,
             Then(Token_resolve(rule, dispatcher, node, NodeV(next_node)),
                  ElisionJoinAttr_rest(rule, dispatcher, node, next_node,
                                       Tail(nodes)))))

ElisionJoinAttr_call(rule, dispatcher, node) ==
    LET g == Attr_getattr(rule, dispatcher, node)
    IN  IF Raised(g.ev) THEN g.ev
        ELSE IF g.val.k # "list"
        THEN g.ev \o <<ErrorEvent("TypeError", node)>>
        ELSE IF g.val.l = <<>> THEN g.ev
             ELSE Then(g.ev \o Token_resolve(rule, dispatcher, node,
                                             NodeV(Head(g.val.l))),
                       ElisionJoinAttr_rest(rule, dispatcher, node,
                                            Head(g.val.l), Tail(g.val.l)))

\* the wrapped rules are walked whatever the attribute holds
Optional_call_always(rule, dispatcher, node) ==
    _walk(dispatcher, node, rule.sub)

Optional_call(rule, dispatcher, node) ==
    IF is_empty(getattr(node, rule.attr)) THEN <<>>
    ELSE _walk(dispatcher, node, rule.sub)

Token_call(rule, dispatcher, node) ==
    CASE rule.cls = "Text" -> Text_call(rule, dispatcher, node)
      [] rule.cls \in {"Attr", "Operator"} -> Attr_call(rule, dispatcher, node)
      [] rule.cls = "JoinAttr" -> JoinAttr_call(rule, dispatcher, node)
      [] rule.cls = "ElisionToken" -> ElisionToken_call(rule, dispatcher, node)
      [] rule.cls = "ElisionJoinAttr" ->
            ElisionJoinAttr_call(rule, dispatcher, node)
      [] rule.cls = "Optional" -> Optional_call(rule, dispatcher, node)

\* a Layout class without a handler is yielded with NotImplemented as its
\* handler, and calling that raises
_walk_rule_without_noop(dispatcher, node, rule) ==
    IF isinstance_Token(rule) THEN Token_call(rule, dispatcher, node)
    ELSE LET handler == Dispatcher_call_layout(dispatcher, rule.value)
         IN  IF handler = NotImplemented
             THEN <<ErrorEvent("TypeError", node)>>
             ELSE <<Event("layout", rule.value, handler, node, NoneV, rule)>>

\* walk._walk, one rule: a Token is invoked, anything else is yielded as a
\* LayoutRuleChunk with its handler, the noop handler when none is registered
_walk_rule(dispatcher, node, rule) ==
    IF isinstance_Token(rule) THEN Token_call(rule, dispatcher, node)
    ELSE LET handler == Dispatcher_call_layout(dispatcher, rule.value)
         IN  <<Event("layout", rule.value,
                     IF handler = NotImplemented THEN rule_handler_noop
                     ELSE handler,
                     node, NoneV, rule)>>

_walk(dispatcher, node, definition) ==
    IF definition = <<>> THEN <<>>
    ELSE Then(_walk_rule(dispatcher, node, Head(definition)),
              _walk(dispatcher, node, Tail(definition)))

(***************************************************************************)
(* The inputs: the definitions and handlers given to Dispatcher(...) and   *)
(* the node given to walk.                                                 *)
(***************************************************************************)
\* the definitions of PPVisitorTestCase.setUp
TestDefinitions ==
    [ES5Program |-> <<children_newline, Newline>>,
     VarStatement |-> <<Text("var"), Space, children_comma, Text(";")>>,
     VarDecl |-> <<AttrDeclare("identifier"), Space, Operator("="), Space,
                   Attr("initializer")>>,
     Identifier |-> <<AttrResolve>>,
     Number |-> <<Attr("value")>>,
     DotAccessor |-> <<Attr("node"), Text("."), Attr("identifier")>>,
     FunctionCall |-> <<Attr("identifier"), Attr("args")>>,
     Arguments |-> <<Text("("), JoinAttr("items", <<Text(","), Space>>),
                     Text(")")>>]

\* definitions for the rule types the test's definitions do not use
MoreDefinitions ==
    [Array |-> <<Text("["), ElisionJoinAttr("items", <<Space>>), Text("]")>>,
     Elision |-> <<ElisionToken("value", ",")>>,
     Label |-> <<AttrResolve>>,
     FuncDecl |-> <<Text("function"), Space, AttrDeclare("identifier"),
                    Text("("), PushScope,
                    JoinAttrDeclare("parameters", <<Text(","), Space>>),
                    Text(")"), PopScope>>]

FullDefinitions == TestDefinitions @@ MoreDefinitions

\* the same with the initializer of a VarDecl under Optional
OptionalDefinitions ==
    [VarDecl |-> <<AttrDeclare("identifier"),
                   Optional("initializer",
                            <<Space, Operator("="), Space,
                              Attr("initializer")>>)>>]
    @@ FullDefinitions

\* a Block: the same run of layout markers before "{", after the body and
\* after "}"
RunMarkers == {"Indent", "Newline", "Dedent"}
Runs == UNION {[1..k -> RunMarkers] : k \in 0..MaxRun}
RunRules(run) == [j \in 1..Len(run) |-> Layout(run[j])]
BlockDefinitions(run) ==
    [Block |-> RunRules(run) \o <<Text("{"), Attr("body")>> \o RunRules(run)
               \o <<Text("}")>> \o RunRules(run)]

Dispatcher(definitions, token_handler, layout_handlers, layout_tuples, deferred_handlers, replacement) ==
    [definitions |-> definitions, token_handler |-> token_handler,
     layout_handlers |-> layout_handlers, layout_tuples |-> layout_tuples,
     deferred_handlers |-> deferred_handlers, replacement |-> replacement]

\* setup_handlers of the test, and the same with fewer deferred handlers
DeferredHandlerSets ==
    {("Declare" :> "declare") @@ ("Resolve" :> "replace"),
     ("Declare" :> "declare"),
     ("Resolve" :> "replace"),
     <<>>}
Replacements == {<<>>, ("$" :> "jq") @@ ("a" :> "x")}

TestDispatchers ==
    {Dispatcher(defs, "simple_token_maker", ("Space" :> "simple_space"), <<>>,
                dh, rep) :
        defs \in {FullDefinitions, OptionalDefinitions},
        dh \in DeferredHandlerSets, rep \in Replacements}

SingleHandlers ==
    ("Indent" :> "indent") @@ ("Newline" :> "newline")
    @@ ("Dedent" :> "dedent")

BlockLayouts ==
    {[single |-> <<>>, tuples |-> <<>>],
     [single |-> SingleHandlers, tuples |-> <<>>],
     [single |-> SingleHandlers,
      tuples |-> (<<"Indent", "Newline">> :> "indent_newline")
                 @@ (<<"Indent", "Newline", "Dedent">> :> "collapse")],
     [single |-> ("Indent" :> "indent") @@ ("Newline" :> "newline"),
      tuples |-> (<<"Indent", "Newline">> :> "indent_newline")],
     [single |-> SingleHandlers,
      tuples |-> (<<"Newline">> :> "newline_tuple")
                 @@ (<<"Dedent", "Indent">> :> "collapse")]}

BlockDispatchers ==
    {Dispatcher(BlockDefinitions(run), "simple_token_maker", lay.single,
                lay.tuples, <<>>, <<>>) :
        run \in Runs, lay \in BlockLayouts}

TestRoots ==
    {1, 6, 20, 26, 30, 40, 42, 44, 45, 47, 49, 52, 56, 70} \cup 100..(100 + MaxItems)
BlockRoots == {60, 61, 62}

Inputs ==
    (TestDispatchers \X TestRoots) \cup (BlockDispatchers \X BlockRoots)

\* definitions with PushScope and PopScope, each PushScope of a definition
\* followed by its PopScope in the same definition: the scope is entered
\* after '(', before 'function', entered and left at the end, or entered
\* right before the elements and left right after them
ScopeDefinitions ==
    {[ES5Program |-> <<children_newline>>,
      Identifier |-> <<AttrResolve>>,
      Number |-> <<Attr("value")>>,
      FuncExpr |-> funcexpr] :
        funcexpr \in
            {<<Text("function"), Text("("), PushScope,
               JoinAttrDeclare("parameters", <<Text(",")>>), Text(")"),
               Text("{"), JoinAttr("elements", <<Newline>>), Text("}"),
               PopScope>>,
             <<PushScope, Text("function"), Text("("),
               JoinAttrDeclare("parameters", <<Text(",")>>), Text(")"),
               Text("{"), JoinAttr("elements", <<Newline>>), Text("}"),
               PopScope>>,
             <<Text("function"), Text("("),
               JoinAttrDeclare("parameters", <<Text(",")>>), Text(")"),
               Text("{"), Text("}"), PushScope, PopScope>>,
             <<Text("function"), Text("("),
               JoinAttrDeclare("parameters", <<Text(",")>>), Text(")"),
               Text("{"), PushScope, JoinAttr("elements", <<Newline>>),
               PopScope, Text("}")>>}}

\* definitions with a PopScope that no PushScope comes before
UnmatchedDefinitions ==
    {[ES5Program |-> <<children_newline>>,
      Identifier |-> <<AttrResolve>>,
      Number |-> <<Attr("value")>>,
      FuncExpr |-> <<Text("function"), Text("("), PopScope,
                     JoinAttrDeclare("parameters", <<Text(",")>>), Text(")"),
                     Text("{"), JoinAttr("elements", <<Newline>>),
                     Text("}")>>]}

\* the handlers of mangler.shortener: the methods of one Shortener
ShortenerDispatchers ==
    {Dispatcher(defs, "simple_token_maker",
                ("PushScope" :> "push_scope") @@ ("PopScope" :> "pop_scope")
                @@ more,
                <<>>,
                ("Declare" :> "Shortener.declare")
                @@ ("Resolve" :> "Shortener.resolve"),
                <<>>) :
        defs \in ScopeDefinitions \cup UnmatchedDefinitions,
        more \in {<<>>, ("Newline" :> "newline")}}

ScopeRoots == {200, 201, 204, 210, 211, 212, 213, 214, 215}

FirstPassInputs == ShortenerDispatchers \X ScopeRoots

(***************************************************************************)
(* mangler.py: Scope and Shortener.  The objects are kept in the record    *)
(* of the Shortener:                                                       *)
(*   heap    the Scope objects made so far; a Scope is named by its place  *)
(*           in heap, None by 0                                            *)
(*   sets    the set objects made for consumed_symbols; the field          *)
(*           consumed_symbols of a Scope names one by its place in sets,   *)
(*           so that two Scopes can hold the same set or two sets          *)
(*   scopes  the dict self.scopes: node -> Scope                           *)
(*   stack   the list self.stack                                           *)
(*   raised  the exception the last call raised, "" when it returned       *)
(***************************************************************************)
\* dict.get(key, default)
DictGet(table, key, default) ==
    IF key \in DOMAIN table THEN table[key] ELSE default

\* Shortener(): use_global_scope is False
Shortener ==
    [scopes |-> <<>>, stack |-> <<>>, heap |-> <<>>, sets |-> <<>>,
     raised |-> ""]

\* Scope(node, parent): the new Scope is the last of heap
Scope(sh, node, parent) ==
    LET sets == IF parent # 0 THEN sh.sets ELSE Append(sh.sets, {})
    IN  [sh EXCEPT
            !.sets = sets,
            !.heap = Append(@, [node |-> node, parent |-> parent,
                                consumed_symbols |->
                                    IF parent # 0
                                    THEN sh.heap[parent].consumed_symbols
                                    ELSE Len(sets),
                                referenced_symbols |-> <<>>,
                                local_symbols |-> {}])]

\* the count of the symbol is set to 0 whether or not there is one
Scope_declare_resetting(sh, scope, symbol) ==
    [sh EXCEPT
        !.sets[sh.heap[scope].consumed_symbols] = @ \cup {symbol},
        !.heap[scope].local_symbols = @ \cup {symbol},
        !.heap[scope].referenced_symbols = (symbol :> 0) @@ @]

\* Scope.declare(symbol)
Scope_declare(sh, scope, symbol) ==
    [sh EXCEPT
        !.sets[sh.heap[scope].consumed_symbols] = @ \cup {symbol},
        !.heap[scope].local_symbols = @ \cup {symbol},
        !.heap[scope].referenced_symbols =
            (symbol :> DictGet(@, symbol, 0)) @@ @]

\* the reference is counted in the scope and in the scopes it is within
RECURSIVE Scope_resolve_climbing(_, _, _)
Scope_resolve_climbing(sh, scope, symbol) ==
    LET counted == [sh EXCEPT !.heap[scope].referenced_symbols =
                                  (symbol :> DictGet(@, symbol, 0) + 1) @@ @]
    IN  IF sh.heap[scope].parent = 0 THEN counted
        ELSE Scope_resolve_climbing(counted, sh.heap[scope].parent, symbol)

\* Scope.resolve(symbol)
Scope_resolve(sh, scope, symbol) ==
    [sh EXCEPT !.heap[scope].referenced_symbols =
                   (symbol :> DictGet(@, symbol, 0) + 1) @@ @]

\* Shortener.current_scope: None (0) when the stack is empty
current_scope(sh) ==
    IF sh.stack # <<>> THEN sh.stack[Len(sh.stack)] ELSE 0

\* the new Scope has no parent
push_scope_without_parent(sh, node) ==
    LET made == Scope(sh, node, 0)
    IN  [made EXCEPT !.scopes = (node :> Len(made.heap)) @@ @,
                     !.stack = Append(@, Len(made.heap)),
                     !.raised = ""]

\* Shortener.push_scope(dispatcher, node, *a, **kw)
push_scope(sh, node) ==
    LET made == Scope(sh, node, current_scope(sh))
    IN  [made EXCEPT !.scopes = (node :> Len(made.heap)) @@ @,
                     !.stack = Append(@, Len(made.heap)),
                     !.raised = ""]

\* the Scope pushed first is removed
pop_scope_bottom(sh) ==
    IF sh.stack = <<>> THEN [sh EXCEPT !.raised = "IndexError"]
    ELSE [sh EXCEPT !.stack = Tail(@), !.raised = ""]

\* Shortener.pop_scope(dispatcher, node, *a, **kw): list.pop() of an empty
\* list raises IndexError
pop_scope(sh) ==
    IF sh.stack = <<>> THEN [sh EXCEPT !.raised = "IndexError"]
    ELSE [sh EXCEPT !.stack = SubSeq(@, 1, Len(@) - 1), !.raised = ""]

\* Shortener.declare(dispatcher, node): self.current_scope.declare raises
\* AttributeError when current_scope is None, node.identifier.value when
\* the node has no identifier or the identifier is no node
Shortener_declare(sh, node) ==
    IF \/ current_scope(sh) = 0
       \/ "identifier" \notin DOMAIN Node[node].attrs
       \/ ~isinstance_Node(getattr(node, "identifier"))
    THEN [sh EXCEPT !.raised = "AttributeError"]
    ELSE [Scope_declare(sh, current_scope(sh),
                        getattr(getattr(node, "identifier").n, "value").s)
            EXCEPT !.raised = ""]

\* Shortener.resolve(dispatcher, node); it returns None
Shortener_resolve(sh, node) ==
    IF current_scope(sh) = 0
    THEN [sh EXCEPT !.raised = "AttributeError"]
    ELSE [Scope_resolve(sh, current_scope(sh), getattr(node, "value").s)
            EXCEPT !.raised = ""]

\* the calls of the methods of the Shortener that returned, counted; and
\* for a Scope and a symbol the calls of resolve for the symbol that
\* returned while the Scope was the current one
NoCalls ==
    [push_scope |-> 0, pop_scope |-> 0, declare |-> 0, resolve |-> 0,
     resolved |-> <<>>]

\* calls after the call of method op with the node, that found the
\* Shortener as sh and left it as after
Called(calls, op, sh, after, node) ==
    IF after.raised # "" THEN calls
    ELSE [calls EXCEPT
             ![op] = @ + 1,
             !.resolved =
                 IF op # "resolve" THEN @
                 ELSE LET key == <<current_scope(sh),
                                   getattr(node, "value").s>>
                      IN  (key :> DictGet(@, key, 0) + 1) @@ @]

(***************************************************************************)
(* The layout handlers: what each yields when called with                  *)
(* (dispatcher, node, before, after, prev).                                *)
(***************************************************************************)
LayoutYield(handler, node, before, after, prev) ==
    CASE handler = "simple_space" -> <<" ">>
      [] handler \in {"newline", "newline_tuple"} -> <<"\n">>
      [] handler = "indent_newline" -> <<"\n", "  ">>
      [] OTHER -> <<>>

(***************************************************************************)
(* walker.py: walk.  The state of one call of walk is a record w:          *)
(*   gen                 what the generator _walk has still to do          *)
(*   layout_rule_chunks  the buffer of LayoutRuleChunks                    *)
(*   last_chunk, chunk   None or the chunk                                 *)
(*   batch, prev_text    the state of the generator process_layouts:       *)
(*                       chain(normalized_lrcs, lrcs_stack) still to       *)
(*                       handle, and prev_text                             *)
(*   pc                  where the call stands                             *)
(*   out                 the chunks yielded to the caller so far           *)
(* and the records the handlers keep (tokens_handled, layouts_handled,     *)
(* declared_vars of the test; deferred_handled records every deferred      *)
(* handler call; shortener is the Shortener whose methods are registered   *)
(* as handlers, calls counts the calls of them).  A chunk is [text];      *)
(* node, idx and layout are kept with it to tell where it comes from: the  *)
(* node it was made for, the place in the rule order of the token or       *)
(* marker that made it, and whether a layout handler yielded it.           *)
(***************************************************************************)
Chunk(text, node, idx, layout) ==
    [text |-> text, node |-> node, idx |-> idx, layout |-> layout]

\* (an entry of layouts_handled also tells at how many chunks yielded the
\* handler was called)
\* rule is the tuple of Layout classes; combined tells a tuple looked up
\* by process_layouts from a Layout class queued by _walk; idxs are the
\* places in the rule order of the markers it stands for
LayoutRuleChunk(rule, handler, node, combined, idxs) ==
    [rule |-> rule, handler |-> handler, node |-> node,
     combined |-> combined, idxs |-> idxs]

Tag(evs) == [j \in 1..Len(evs) |-> [evs[j] EXCEPT !.idx = j]]

RECURSIVE FirstPass(_, _, _, _, _, _, _)
\* process_layouts, first pass (the loop over layout_rule_chunks)
FirstPassShortest(dispatcher, lrcs, j, rule_stack, idx_stack, lrcs_stack, normalized_lrcs) ==
    IF j > Len(lrcs) THEN normalized_lrcs \o lrcs_stack
    ELSE LET lrc == lrcs[j]
             rules == rule_stack \o lrc.rule
             idxs == idx_stack \o lrc.idxs
             handler == Dispatcher_call_tuple(dispatcher, rules)
         IN  IF handler = NotImplemented
             THEN FirstPass(dispatcher, lrcs, j + 1, rules, idxs,
                            Append(lrcs_stack, lrc), normalized_lrcs)
             ELSE FirstPass(dispatcher, lrcs, j + 1, <<>>, <<>>, <<>>,
                            Append(normalized_lrcs,
                                   LayoutRuleChunk(rules, handler,
                                                   lrcs[1].node, TRUE, idxs)))

\* the stack of chunks is kept when a combination is made of it
FirstPassKeepingStack(dispatcher, lrcs, j, rule_stack, idx_stack, lrcs_stack, normalized_lrcs) ==
    IF j > Len(lrcs) THEN normalized_lrcs \o lrcs_stack
    ELSE LET lrc == lrcs[j]
             rules == rule_stack \o lrc.rule
             idxs == idx_stack \o lrc.idxs
             handler == Dispatcher_call_tuple(dispatcher, rules)
         IN  IF handler = NotImplemented
             THEN FirstPass(dispatcher, lrcs, j + 1, rules, idxs,
                            Append(lrcs_stack, lrc), normalized_lrcs)
             ELSE FirstPass(dispatcher, lrcs, j + 1, <<>>, <<>>, lrcs_stack,
                            Append(normalized_lrcs,
                                   LayoutRuleChunk(rules, handler,
                                                   lrcs[1].node, TRUE, idxs)))

FirstPass(dispatcher, lrcs, j, rule_stack, idx_stack, lrcs_stack, normalized_lrcs) ==
    FirstPassShortest(dispatcher, lrcs, j, rule_stack, idx_stack, lrcs_stack,
                      normalized_lrcs)

\* process_layouts up to its second loop: chain(normalized_lrcs, lrcs_stack)
process_layouts_chain(dispatcher, layout_rule_chunks) ==
    FirstPass(dispatcher, layout_rule_chunks, 1, <<>>, <<>>, <<>>, <<>>)

TextOf(c) == IF c = None THEN None ELSE Some(c[1].text)

InitWalk(dispatcher, node) ==
    [dispatcher |-> dispatcher, root |-> node,
     gen |-> Tag(_walk(dispatcher, node, Dispatcher_getitem(dispatcher, node))),
     layout_rule_chunks |-> <<>>, last_chunk |-> None, chunk |-> None,
     batch |-> <<>>, prev_text |-> None, pc |-> "walk", out |-> <<>>,
     tokens_handled |-> <<>>, layouts_handled |-> <<>>,
     declared_vars |-> <<>>, deferred_handled |-> <<>>,
     shortener |-> Shortener, calls |-> NoCalls]

\* for chunk in _walk(...): a LayoutRuleChunk is appended to the buffer
PullLayout(w) ==
    LET ev == Head(w.gen)
    IN  [w EXCEPT !.gen = Tail(w.gen),
                  !.layout_rule_chunks =
                      Append(@, LayoutRuleChunk(<<ev.key>>, ev.handler,
                                                ev.node, FALSE, <<ev.idx>>))]

\* inside _walk: a Declare or Resolve handler is called; an exception it
\* raises leaves _walk and walk
PullDeferred(w) ==
    LET ev == Head(w.gen)
        sh == CASE ev.handler = "Shortener.declare" ->
                      Shortener_declare(w.shortener, ev.node)
                [] ev.handler = "Shortener.resolve" ->
                      Shortener_resolve(w.shortener, ev.node)
                [] OTHER -> w.shortener
    IN  [w EXCEPT !.gen = IF sh.raised # "" THEN @ ELSE Tail(@),
                  !.deferred_handled = Append(@, <<ev.key, ev.node>>),
                  !.declared_vars =
                      IF ev.handler = "declare"
                      THEN Append(@, getattr(ev.node, "value").s)
                      ELSE @,
                  !.shortener = sh,
                  !.calls =
                      CASE ev.handler = "Shortener.declare" ->
                              Called(@, "declare", w.shortener, sh, ev.node)
                        [] ev.handler = "Shortener.resolve" ->
                              Called(@, "resolve", w.shortener, sh, ev.node)
                        [] OTHER -> @,
                  !.pc = IF sh.raised # "" THEN "error" ELSE @]

\* a chunk comes out of _walk: process_layouts is started for it, with
\* prev_text as given
PullChunkWith(w, prev_text) ==
    LET ev == Head(w.gen)
    IN  [w EXCEPT !.gen = Tail(w.gen),
                  !.tokens_handled = Append(@, <<ev.rule, ev.node, ev.value>>),
                  !.chunk = Some(Chunk(ev.value.s, ev.node, ev.idx, FALSE)),
                  !.batch = process_layouts_chain(w.dispatcher,
                                                  w.layout_rule_chunks),
                  !.prev_text = prev_text,
                  !.pc = "layouts"]

\* prev_text is kept from the batch before
PullChunkKeepingPrev(w) == PullChunkWith(w, w.prev_text)

PullChunk(w) == PullChunkWith(w, None)

\* the markers left in the buffer when _walk is exhausted are dropped
PullEndDroppingRemaining(w) ==
    [w EXCEPT !.chunk = None, !.batch = <<>>, !.prev_text = None,
              !.pc = "remaining"]

\* _walk is exhausted: process_layouts is started with chunk None
PullEnd(w) ==
    [w EXCEPT !.chunk = None,
              !.batch = process_layouts_chain(w.dispatcher,
                                              w.layout_rule_chunks),
              !.prev_text = None,
              !.pc = "remaining"]

\* an exception leaves _walk and walk
PullError(w) == [w EXCEPT !.pc = "error"]

\* process_layouts, second loop: one handler is called and what it yields
\* is yielded
HandleLayoutWith(w, node_of) ==
    LET lr_chunk == Head(w.batch)
        node == node_of
        before_text == TextOf(w.last_chunk)
        after_text == TextOf(w.chunk)
        texts == LayoutYield(lr_chunk.handler, node, before_text, after_text,
                             w.prev_text)
        sh == CASE lr_chunk.handler = "push_scope" ->
                      push_scope(w.shortener, node)
                [] lr_chunk.handler = "pop_scope" -> pop_scope(w.shortener)
                [] OTHER -> w.shortener
    IN  [w EXCEPT !.batch = Tail(w.batch),
                  !.shortener = sh,
                  !.calls =
                      IF lr_chunk.handler \in {"push_scope", "pop_scope"}
                      THEN Called(@, lr_chunk.handler, w.shortener, sh, node)
                      ELSE @,
                  !.pc = IF sh.raised # "" THEN "error" ELSE @,
                  !.layouts_handled =
                      Append(@, [rule |-> lr_chunk.rule,
                                 handler |-> lr_chunk.handler,
                                 combined |-> lr_chunk.combined,
                                 idxs |-> lr_chunk.idxs,
                                 node |-> node, before |-> before_text,
                                 after |-> after_text, prev |-> w.prev_text,
                                 at |-> Len(w.out)]),
                  !.out = @ \o [j \in 1..Len(texts) |->
                                  Chunk(texts[j], node, lr_chunk.idxs[1], TRUE)],
                  !.prev_text = IF texts = <<>> THEN @
                                ELSE Some(texts[Len(texts)])]

\* the handler is given the node of the walk, not the node of the chunk
HandleLayoutRootNode(w) == HandleLayoutWith(w, w.root)

HandleLayout(w) == HandleLayoutWith(w, Head(w.batch).node)

\* the buffer is not emptied
ClearBufferForgotten(w) == [w EXCEPT !.pc = "yield"]

\* layout_rule_chunks[:] = []
ClearBuffer(w) == [w EXCEPT !.layout_rule_chunks = <<>>, !.pc = "yield"]

RECURSIVE LastContent(_, _)
\* the place of the last chunk of out[1..j] that no layout handler yielded
LastContent(chunks, j) ==
    IF j = 0 THEN 0
    ELSE IF ~chunks[j].layout THEN j ELSE LastContent(chunks, j - 1)

\* the chunk is yielded ahead of the layout chunks of its batch
YieldChunkBeforeLayouts(w) ==
    LET j == LastContent(w.out, Len(w.out))
    IN  [w EXCEPT !.out = SubSeq(@, 1, j) \o <<w.chunk[1]>>
                          \o SubSeq(@, j + 1, Len(@)),
                  !.last_chunk = w.chunk, !.pc = "walk"]

\* yield chunk; last_chunk = chunk
YieldChunk(w) ==
    [w EXCEPT !.out = Append(@, w.chunk[1]), !.last_chunk = w.chunk,
              !.pc = "walk"]

\* the generator returns
Finish(w) == [w EXCEPT !.pc = "done"]

\* no second call of walk
NoWalk == [pc |-> "none"]

\* no call of the codec
NoCodec == [pc |-> "none"]

(***************************************************************************)
(* The state machine: one call of walk, pulled to its end by its caller.   *)
(***************************************************************************)
VARIABLES dispatcher, root, gen, layout_rule_chunks, last_chunk, chunk,
          batch, prev_text, pc, out, tokens_handled, layouts_handled,
          declared_vars, deferred_handled, shortener, calls, other_walk, codec

vars == <<dispatcher, root, gen, layout_rule_chunks, last_chunk, chunk,
          batch, prev_text, pc, out, tokens_handled, layouts_handled,
          declared_vars, deferred_handled, shortener, calls, other_walk, codec>>

W == [dispatcher |-> dispatcher, root |-> root, gen |-> gen,
      layout_rule_chunks |-> layout_rule_chunks, last_chunk |-> last_chunk,
      chunk |-> chunk, batch |-> batch, prev_text |-> prev_text, pc |-> pc,
      out |-> out, tokens_handled |-> tokens_handled,
      layouts_handled |-> layouts_handled, declared_vars |-> declared_vars,
      deferred_handled |-> deferred_handled, shortener |-> shortener,
      calls |-> calls]

Becomes(w) ==
    /\ dispatcher' = w.dispatcher
    /\ root' = w.root
    /\ gen' = w.gen
    /\ layout_rule_chunks' = w.layout_rule_chunks
    /\ last_chunk' = w.last_chunk
    /\ chunk' = w.chunk
    /\ batch' = w.batch
    /\ prev_text' = w.prev_text
    /\ pc' = w.pc
    /\ out' = w.out
    /\ tokens_handled' = w.tokens_handled
    /\ layouts_handled' = w.layouts_handled
    /\ declared_vars' = w.declared_vars
    /\ deferred_handled' = w.deferred_handled
    /\ shortener' = w.shortener
    /\ calls' = w.calls
    /\ UNCHANGED <<other_walk, codec>>

IsWalk(w) ==
    /\ dispatcher = w.dispatcher
    /\ root = w.root
    /\ gen = w.gen
    /\ layout_rule_chunks = w.layout_rule_chunks
    /\ last_chunk = w.last_chunk
    /\ chunk = w.chunk
    /\ batch = w.batch
    /\ prev_text = w.prev_text
    /\ pc = w.pc
    /\ out = w.out
    /\ tokens_handled = w.tokens_handled
    /\ layouts_handled = w.layouts_handled
    /\ declared_vars = w.declared_vars
    /\ deferred_handled = w.deferred_handled
    /\ shortener = w.shortener
    /\ calls = w.calls

\* one call of walk and nothing else: no second call, no call of the codec
Is(w) == IsWalk(w) /\ other_walk = NoWalk /\ codec = NoCodec

Init == \E input \in Inputs : Is(InitWalk(input[1], input[2]))

\* for chunk in _walk(dispatcher, node, definition): the next pull
WalkLayout ==
    /\ pc = "walk" /\ gen # <<>> /\ Head(gen).e = "layout"
    /\ Becomes(PullLayout(W))

WalkDeferred ==
    /\ pc = "walk" /\ gen # <<>> /\ Head(gen).e = "deferred"
    /\ Becomes(PullDeferred(W))

WalkChunk ==
    /\ pc = "walk" /\ gen # <<>> /\ Head(gen).e = "chunk"
    /\ Becomes(PullChunk(W))

WalkError ==
    /\ pc = "walk" /\ gen # <<>> /\ Head(gen).e = "error"
    /\ Becomes(PullError(W))

WalkEnd ==
    /\ pc = "walk" /\ gen = <<>>
    /\ Becomes(PullEnd(W))

\* for layout in process_layouts(...): yield layout
ProcessLayout ==
    /\ pc \in {"layouts", "remaining"} /\ batch # <<>>
    /\ Becomes(HandleLayout(W))

Clear ==
    /\ pc = "layouts" /\ batch = <<>>
    /\ Becomes(ClearBuffer(W))

Yield ==
    /\ pc = "yield"
    /\ Becomes(YieldChunk(W))

Return ==
    /\ pc = "remaining" /\ batch = <<>>
    /\ Becomes(Finish(W))

Next ==
    \/ WalkLayout
    \/ WalkDeferred
    \/ WalkChunk
    \/ WalkError
    \/ WalkEnd
    \/ ProcessLayout
    \/ Clear
    \/ Yield
    \/ Return

Spec == Init /\ [][Next]_vars

\* the texts of a sequence of chunks
Texts(chunks) == [j \in 1..Len(chunks) |-> chunks[j].text]


RECURSIVE Join(_)
\* ''.join(texts)
Join(texts) == IF texts = <<>> THEN "" ELSE Head(texts) \o Join(Tail(texts))

\* everything _walk does for the walk at hand, each with its place
Stream ==
    Tag(_walk(dispatcher, root, Dispatcher_getitem(dispatcher, root)))

\* the chunks of a sequence that a token made
Content(chunks) == SelectSeq(chunks, LAMBDA c : ~c.layout)

\* one step of a walk, and the walk pulled to its end
Step(w) ==
    CASE w.pc = "walk" /\ w.gen = <<>> -> PullEnd(w)
      [] w.pc = "walk" /\ w.gen # <<>> /\ Head(w.gen).e = "layout" ->
            PullLayout(w)
      [] w.pc = "walk" /\ w.gen # <<>> /\ Head(w.gen).e = "deferred" ->
            PullDeferred(w)
      [] w.pc = "walk" /\ w.gen # <<>> /\ Head(w.gen).e = "chunk" ->
            PullChunk(w)
      [] w.pc = "walk" /\ w.gen # <<>> /\ Head(w.gen).e = "error" ->
            PullError(w)
      [] w.pc \in {"layouts", "remaining"} /\ w.batch # <<>> ->
            HandleLayout(w)
      [] w.pc = "layouts" /\ w.batch = <<>> -> ClearBuffer(w)
      [] w.pc = "yield" -> YieldChunk(w)
      [] w.pc = "remaining" /\ w.batch = <<>> -> Finish(w)

RECURSIVE Consumed(_)
Consumed(w) == IF w.pc \in {"done", "error"} THEN w ELSE Consumed(Step(w))

(***************************************************************************)
(* C1.  Ordering of the chunks of a walk.                                  *)
(***************************************************************************)
\* of two yielded chunks of which at least one is a content chunk, the one
\* yielded first comes from the earlier place of the rule order
InRuleOrder ==
    \A i, j \in 1..Len(out) :
        (i < j /\ ~(out[i].layout /\ out[j].layout))
            => out[i].idx < out[j].idx

\* a walk consumed to its end has yielded the chunk of every token, once
AllContentYielded ==
    pc = "done" =>
        LET made == SelectSeq(Stream, LAMBDA ev : ev.e = "chunk")
        IN  Content(out) =
                [j \in 1..Len(made) |->
                    Chunk(made[j].value.s, made[j].node, made[j].idx, FALSE)]

\* the renderings the tests assert (and the same for var a = 1, b)
TestRenderings ==
    (pc = "done" /\ dispatcher.definitions = FullDefinitions
     /\ dispatcher.replacement = <<>>)
        => /\ root = 1 => Join(Texts(out)) = "var a = 1;"
           /\ root = 6 => Join(Texts(out)) = "var w = $(window).width();"
           /\ root = 20 => Join(Texts(out)) = "var a = 1, b = ;"

\* C1: in a walk consumed to its end the content chunks come in the
\* depth-first, left-to-right order of the Token rules that made them, and
\* every chunk a layout handler yields comes after the content chunks of
\* the rules before its marker and before the content chunks of the rules
\* after it; the texts concatenated are the rendered output (the source
\* text for the grammar of the test).
C1_ChunkOrder == InRuleOrder /\ AllContentYielded /\ TestRenderings

C1_Witness ==
    /\ pc = "done" /\ root = 1
    /\ Texts(out) = <<"var", " ", "a", " ", "=", " ", "1", ";">>

(***************************************************************************)
(* C2.  The node a single-marker handler is called with.                   *)
(***************************************************************************)
RECURSIVE MarkersOf(_)
\* the Layout classes written in a definition, the definitions given as a
\* value of its tokens included
MarkersOf(definition) ==
    IF definition = <<>> THEN {}
    ELSE LET rule == Head(definition)
         IN  (IF isinstance_Token(rule) THEN MarkersOf(rule.sub)
              ELSE {rule.value})
             \cup MarkersOf(Tail(definition))

SingleHandled == SelectSeq(layouts_handled, LAMBDA h : ~h.combined)

\* C2: a marker resolved by its single-marker handler is handled with the
\* node whose rule sequence queued it (a nested node and the separator of
\* a JoinAttr included), and these handlers are called in the order the
\* markers were queued.
C2_QueuingNode ==
    /\ LET stream == Stream
           single == SingleHandled
       IN  \A j \in 1..Len(single) :
              LET h == single[j]
              IN  /\ h.node = stream[h.idxs[1]].node
                  /\ h.rule[1] \in
                        MarkersOf(dispatcher.definitions[Node[h.node].type])
                  /\ j > 1 => single[j - 1].idxs[1] < h.idxs[1]
    /\ (pc = "done" /\ root = 1)
          => [j \in 1..Len(SelectSeq(layouts_handled,
                                     LAMBDA h : h.handler = "simple_space"))
                |-> SelectSeq(layouts_handled,
                              LAMBDA h : h.handler = "simple_space")[j].node]
             = <<2, 3, 3>>

\* var a = 1, b: the Space of the separator of children_comma is handled
\* with the VarStatement, between the Spaces of the two VarDecl
C2_Witness ==
    /\ pc = "done" /\ root = 20
    /\ dispatcher.definitions = FullDefinitions
    /\ [j \in 1..Len(layouts_handled) |->
            <<layouts_handled[j].handler, layouts_handled[j].node>>]
       = <<<<"simple_space", 21>>, <<"simple_space", 3>>,
           <<"simple_space", 3>>, <<"simple_space", 21>>,
           <<"simple_space", 22>>, <<"simple_space", 22>>,
           <<"rule_handler_noop", 20>>>>

(***************************************************************************)
(* C3.  Markers are buffered and resolved in batches.                      *)
(***************************************************************************)
RECURSIVE Flatten(_)
Flatten(seqs) == IF seqs = <<>> THEN <<>> ELSE Head(seqs) \o Flatten(Tail(seqs))

\* the places of the markers the handlers called so far stood for
ResolvedMarkers ==
    Flatten([j \in 1..Len(layouts_handled) |-> layouts_handled[j].idxs])

QueuedMarkers ==
    LET queued == SelectSeq(Stream, LAMBDA ev : ev.e = "layout")
    IN  [j \in 1..Len(queued) |-> queued[j].idx]

\* a step that meets a marker calls no handler and yields nothing
MetMarkerIsBuffered ==
    Len(layout_rule_chunks') > Len(layout_rule_chunks)
        => /\ layouts_handled' = layouts_handled
           /\ out' = out
           /\ layout_rule_chunks' =
                 SubSeq(layout_rule_chunks', 1, Len(layout_rule_chunks))
                 \o <<layout_rule_chunks'[Len(layout_rule_chunks')]>>
           /\ SubSeq(layout_rule_chunks', 1, Len(layout_rule_chunks))
                 = layout_rule_chunks

\* a handler is called only once the next content chunk is there or the
\* rule stream has ended, and for a marker of the buffer
HandledOnlyInBatch ==
    layouts_handled' # layouts_handled
        => /\ (pc = "layouts" /\ chunk # None) \/ (pc = "remaining" /\ gen = <<>>)
           /\ \A x \in {layouts_handled'[Len(layouts_handled')].idxs[j] :
                          j \in 1..Len(layouts_handled'[Len(layouts_handled')].idxs)} :
                 \E k \in 1..Len(layout_rule_chunks) :
                    layout_rule_chunks[k].idxs = <<x>>

\* the content chunk is yielded with the buffer empty and nothing of the
\* batch left to handle
YieldedWithEmptyBuffer ==
    (out' # out /\ ~out'[Len(out')].layout)
        => layout_rule_chunks = <<>> /\ batch = <<>>

\* no marker is resolved twice, and none is left when the walk has ended
ResolvedOnce ==
    LET resolved == ResolvedMarkers
        places == {resolved[j] : j \in 1..Len(resolved)}
    IN  /\ Cardinality(places) = Len(resolved)
        /\ pc = "done"
              => places = {QueuedMarkers[j] : j \in 1..Len(QueuedMarkers)}

\* C3: the handler of a marker is not called when the marker is met; the
\* marker stays buffered until the next content chunk is there or the
\* rule stream has ended, then the buffered markers are resolved as one
\* batch and the buffer is emptied before the chunk is yielded; a walk
\* consumed to its end leaves no marker unresolved and resolves none twice.
C3_Buffering ==
    /\ [][MetMarkerIsBuffered /\ HandledOnlyInBatch
          /\ YieldedWithEmptyBuffer]_vars
    /\ []ResolvedOnce

C3_Witness ==
    /\ pc = "yield" /\ layout_rule_chunks = <<>>
    /\ Len(layouts_handled) >= 2
    /\ \E j \in 1..Len(layouts_handled) : layouts_handled[j].after = Some("}")

(***************************************************************************)
(* C4.  Which markers of a batch a combined handler takes.                 *)
(***************************************************************************)
\* where in the buffer the marker of place idx stands (0: not there)
BufferPlace(idx) ==
    LET at == {k \in 1..Len(layout_rule_chunks) :
                  layout_rule_chunks[k].idxs = <<idx>>}
    IN  IF at = {} THEN 0 ELSE CHOOSE k \in at : TRUE

BufferRules(from, n) ==
    [j \in 1..n |-> layout_rule_chunks[from + j - 1].rule[1]]

\* C4: a combination of a batch is the longest prefix of the run left in
\* the buffer that has a registered combined handler: with (A, B) and
\* (A, B, C) registered, a buffered run A, B, C is resolved by one call of
\* the (A, B, C) handler.
C4_LongestPrefix ==
    pc \in {"layouts", "remaining"} =>
        \A j \in 1..Len(layouts_handled) :
            LET h == layouts_handled[j]
                from == BufferPlace(h.idxs[1])
            IN  (h.combined /\ from > 0) =>
                    \A n \in (Len(h.rule) + 1)..(Len(layout_rule_chunks) - from + 1) :
                        Dispatcher_call_tuple(dispatcher, BufferRules(from, n))
                            = NotImplemented

(***************************************************************************)
(* C5.  The texts a layout handler is called with.                         *)
(***************************************************************************)
\* the text of the first chunk a token makes after place idx, if any
NextContentText(stream, idx) ==
    LET later == {k \in 1..Len(stream) : k > idx /\ stream[k].e = "chunk"}
    IN  IF later = {} THEN None
        ELSE Some(stream[CHOOSE k \in later : \A m \in later : k <= m].value.s)

\* C5: every layout handler is called with before = the text of the last
\* content chunk yielded before the buffered run (None when there is
\* none), after = the text of the content chunk that set off the
\* resolution (None at the end of the stream), and prev = the text of the
\* last chunk a layout handler yielded earlier in the same batch (None
\* when no handler of the batch has yielded yet).
C5_HandlerTexts ==
    LET stream == Stream
    IN  \A j \in 1..Len(layouts_handled) :
            LET h == layouts_handled[j]
                last == LastContent(out, h.at)
            IN  /\ h.before = IF last = 0 THEN None ELSE Some(out[last].text)
                /\ h.after = NextContentText(stream, h.idxs[Len(h.idxs)])
                /\ h.prev = IF h.at > 0 /\ out[h.at].layout
                            THEN Some(out[h.at].text) ELSE None

\* { } with Newline, Newline before "{", before "}" and at the end: a
\* first handler with before None, a second handler of the batch between
\* "{" and "}" with prev "\n", a handler of the last batch with after None
C5_Witness ==
    /\ pc = "done" /\ root = 60
    /\ \E j \in 1..Len(layouts_handled) :
          /\ layouts_handled[j].before = None
          /\ layouts_handled[j].after = Some("{")
          /\ layouts_handled[j].prev = None
    /\ \E j \in 1..Len(layouts_handled) :
          /\ layouts_handled[j].before = Some("{")
          /\ layouts_handled[j].after = Some("}")
          /\ layouts_handled[j].prev = Some("\n")
    /\ \E j \in 1..Len(layouts_handled) :
          /\ layouts_handled[j].before = Some("}")
          /\ layouts_handled[j].after = None
          /\ layouts_handled[j].prev = Some("\n")

(***************************************************************************)
(* C6.  Resolve.                                                           *)
(***************************************************************************)
Without(table, key) == [k \in DOMAIN table \ {key} |-> table[k]]

WithoutDeferred(d, kind) ==
    [d EXCEPT !.deferred_handlers = Without(@, kind)]

\* what the Resolve handler of the dispatcher at hand returns for a node,
\* the value of the node when there is none
ResolvedText(node) ==
    LET v == Node[node].attrs.value.s
    IN  IF "Resolve" \in DOMAIN dispatcher.deferred_handlers
           /\ v \in DOMAIN dispatcher.replacement
        THEN dispatcher.replacement[v] ELSE v

\* C6: for every Identifier rendered through Attr(Resolve()) the value
\* given to the token handler, and the text yielded, is what the
\* registered Resolve handler returns for the node, the value of the node
\* when no handler is registered; every other text of the output is the
\* same as without the handler.
C6_Resolve ==
    /\ \A j \in 1..Len(tokens_handled) :
          tokens_handled[j][1] = AttrResolve
              => tokens_handled[j][3] = StrV(ResolvedText(tokens_handled[j][2]))
    /\ pc \in {"done", "error"} =>
          LET stream == Stream
              plain == Consumed(InitWalk(WithoutDeferred(dispatcher, "Resolve"),
                                         root))
          IN  /\ Len(out) = Len(plain.out)
              /\ plain.pc = pc
              /\ \A j \in 1..Len(out) :
                    out[j].text =
                        IF ~out[j].layout /\ stream[out[j].idx].rule = AttrResolve
                        THEN ResolvedText(out[j].node)
                        ELSE plain.out[j].text

C6_Witness ==
    /\ pc = "done" /\ root = 6
    /\ dispatcher.definitions = FullDefinitions
    /\ Join(Texts(out)) = "var w = jq(window).width();"

(***************************************************************************)
(* C7.  Declare.                                                           *)
(***************************************************************************)
\* the Identifier nodes the Declare rules of the walk of a root fetch, in
\* the order of the walk
DeclaredBy(r) ==
    CASE r = 1 -> <<4>>
      [] r = 6 -> <<9>>
      [] r \in {20, 26} -> <<4, 23>>
      [] r \in 100..(100 + MaxItems) ->
            <<150>> \o [j \in 1..(r - 100) |-> 150 + j]
      [] OTHER -> <<>>

\* C7: a registered Declare handler is called once for every fetched
\* item, in order, with the item, for a single item as for the items of a
\* list, and not at all for an empty attribute; with or without a handler
\* the fetched value is what is rendered, so a walk consumed to its end
\* yields the same texts with and without a Declare handler.
C7_Declare ==
    LET called == SelectSeq(deferred_handled, LAMBDA c : c[1] = "Declare")
    IN  /\ pc = "done" =>
              /\ [j \in 1..Len(called) |-> called[j][2]]
                 = IF "Declare" \in DOMAIN dispatcher.deferred_handlers
                   THEN DeclaredBy(root) ELSE <<>>
              /\ declared_vars
                 = [j \in 1..Len(called) |-> Node[called[j][2]].attrs.value.s]
              /\ LET plain ==
                        Consumed(InitWalk(WithoutDeferred(dispatcher, "Declare"),
                                          root))
                 IN  plain.pc = "done" /\ Texts(plain.out) = Texts(out)
        /\ (pc = "done" /\ root = 1
            /\ "Declare" \in DOMAIN dispatcher.deferred_handlers)
              => declared_vars = <<"a">>

\* function a(b, c): the handler is called for a, then for b and c
C7_Witness ==
    /\ pc = "done" /\ root = 102
    /\ deferred_handled = <<<<"Declare", 150>>, <<"Declare", 151>>,
                            <<"Declare", 152>>>>
    /\ declared_vars = <<"a", "b", "c">>
    /\ Join(Texts(out)) = "function a(b, c)"

(***************************************************************************)
(* C8.  Declare and Resolve applied to a node that is no Identifier.       *)
(***************************************************************************)
\* the roots whose walk applies a Declare rule to an attribute holding a
\* Number (30: as the single value, 70: as an item of a list), and the
\* root whose walk applies the Resolve rule to a Label
DeclareOfNumberRoots == {30, 70}
ResolveOfLabelRoots == {56}

\* C8: a Declare rule applied to an attribute that holds a node that is
\* no Identifier raises a type error whether or not a Declare handler is
\* registered, and so does a Resolve rule applied to such a node: the walk
\* does not reach its end.
C8_TypeError ==
    root \in DeclareOfNumberRoots \cup ResolveOfLabelRoots => pc # "done"

(***************************************************************************)
(* C9.  A layout marker without a handler.                                 *)
(***************************************************************************)
Range(f) == {f[x] : x \in DOMAIN f}

\* the Layout classes that have no handler of their own and stand in no
\* registered tuple
Unregistered(d) ==
    {m \in UNION {MarkersOf(d.definitions[t]) : t \in DOMAIN d.definitions} :
        /\ m \notin DOMAIN d.layout_handlers
        /\ \A key \in DOMAIN d.layout_tuples : m \notin Range(key)}

RECURSIVE StripMarkers(_, _)
\* a definition with the markers of a set taken out
StripMarkers(definition, markers) ==
    IF definition = <<>> THEN <<>>
    ELSE LET rule == Head(definition)
             rest == StripMarkers(Tail(definition), markers)
         IN  IF isinstance_Token(rule)
             THEN <<[rule EXCEPT !.sub = StripMarkers(@, markers)]>> \o rest
             ELSE IF rule.value \in markers THEN rest ELSE <<rule>> \o rest

WithoutMarkers(d, markers) ==
    [d EXCEPT !.definitions =
        [t \in DOMAIN @ |-> StripMarkers(@[t], markers)]]

\* the walk at hand with the markers without a handler absent from the
\* rule sequences, consumed
AsIfAbsent ==
    Consumed(InitWalk(WithoutMarkers(dispatcher, Unregistered(dispatcher)),
                      root))

\* C9 as stated: a marker without a registered handler is no error, it is
\* resolved by the noop handler, and the chunks yielded are the same as if
\* the marker were absent from the rule sequence.
C9_AsIfAbsent ==
    pc = "done" => Texts(out) = Texts(AsIfAbsent.out)

\* no chunk is made between the places a and b of the rule order
SameBatch(stream, a, b) ==
    \A k \in 1..Len(stream) :
        (a < k /\ k < b) => stream[k].e # "chunk"

\* once the markers without a handler are taken out, no combination is
\* completed by a marker queued after one of them in the same batch
NoCombinationBlocked ==
    LET stream == Stream
        absent == Unregistered(dispatcher)
        kept == SelectSeq(stream,
                          LAMBDA ev : ~(ev.e = "layout" /\ ev.key \in absent))
        handled == AsIfAbsent.layouts_handled
    IN  \A j \in 1..Len(handled), x \in 1..Len(stream) :
            LET last == kept[handled[j].idxs[Len(handled[j].idxs)]].idx
            IN  ~ /\ handled[j].combined
                  /\ stream[x].e = "layout" /\ stream[x].key \in absent
                  /\ x < last
                  /\ SameBatch(stream, x, last)

\* C9 as amended: a marker without a registered handler is no error and
\* is resolved by the noop handler, which yields nothing; the chunks
\* yielded are the same as if the marker were absent unless a registered
\* combination would, without it, be completed by a marker queued after
\* it in the same batch.
C9_NoopUnlessBlocking ==
    /\ root \in BlockRoots => pc # "error"
    /\ \A j \in 1..Len(layouts_handled) :
          LET h == layouts_handled[j]
          IN  Range(h.rule) \cap Unregistered(dispatcher) # {}
                => /\ ~h.combined
                   /\ h.handler = rule_handler_noop
                   /\ \A k \in 1..Len(out) : out[k].idx # h.idxs[1]
    /\ \A j \in 1..Len(layouts_handled) :
          layouts_handled[j].handler = rule_handler_noop
              => layouts_handled[j].rule[1] \in Unregistered(dispatcher)
    /\ (pc = "done" /\ NoCombinationBlocked)
          => Texts(out) = Texts(AsIfAbsent.out)

\* { } with Indent, Newline, Dedent: Dedent has no handler, (Indent,
\* Newline) is combined before it and Dedent is resolved by the noop
C9_Witness ==
    /\ pc = "done" /\ root = 60
    /\ "Dedent" \in Unregistered(dispatcher)
    /\ NoCombinationBlocked
    /\ Texts(out) = <<"\n", "  ", "{", "\n", "  ", "}", "\n", "  ">>
    /\ \E j \in 1..Len(layouts_handled) :
          /\ layouts_handled[j].rule = <<"Dedent">>
          /\ layouts_handled[j].handler = rule_handler_noop
          /\ layouts_handled[j - 1].rule = <<"Indent", "Newline">>

(***************************************************************************)
(* C10.  A node whose type has no definition.                              *)
(***************************************************************************)
\* the roots whose walk comes to the RegEx node 46, for which no
\* definition is registered: [a, /re/, 1], (a, /re/, 1), and
\* var a = 1 followed by var a = /re/, b
RegExRoots == {45, 47, 49}

IsPrefix(a, b) == Len(a) <= Len(b) /\ a = SubSeq(b, 1, Len(a))

\* C10: when the walk comes to a node whose type has no definition (as
\* the value of an Attr, JoinAttr or ElisionJoinAttr rule) it fails with a
\* lookup error, and no chunk of that node or of a later rule is yielded.
C10_MissingDefinition ==
    /\ (pc = "error" /\ Head(gen).key = "KeyError")
          => /\ ~HasDefinition(dispatcher, Head(gen).node)
             /\ \A j \in 1..Len(out) : out[j].idx < Head(gen).idx
    /\ root \in RegExRoots
          => /\ pc # "done"
             /\ pc = "error" => Head(gen).key = "KeyError" /\ Head(gen).node = 46
             /\ \A j \in 1..Len(out) : out[j].text # "/re/"
             /\ root = 45 => IsPrefix(Texts(out), <<"[", ResolvedText(4), ",">>)
             /\ root = 47 => IsPrefix(Texts(out), <<"(", ResolvedText(4), ",">>)
             /\ (root = 49 /\ dispatcher.definitions = FullDefinitions)
                   => IsPrefix(Texts(out),
                               <<"var", " ", ResolvedText(4), " ", "=", " ",
                                 "1", ";",
                                 "var", " ", ResolvedText(4), " ", "=", " ">>)

\* (a, /re/, 1): the walk has failed at the RegEx with "(a, " yielded
C10_Witness ==
    /\ pc = "error" /\ root = 47
    /\ Head(gen).key = "KeyError" /\ Head(gen).node = 46
    /\ Texts(out) = <<"(", "a", ",">>
    /\ Len(layout_rule_chunks) = 1

(***************************************************************************)
(* C11                                                                     *)
(***************************************************************************)
\* C11: when a walk fails with a fatal error (a missing definition, a
\* Declare or Resolve type error), the caller has received no chunk of
\* that walk and no layout or deferred handler of that walk has run before
\* the error is raised.
C11_NoPartialResults ==
    pc = "error" => /\ out = <<>>
                    /\ layouts_handled = <<>>
                    /\ deferred_handled = <<>>

(***************************************************************************)
(* C12.  JoinAttr.                                                         *)
(***************************************************************************)
\* the JoinAttr rules of the definitions of a dispatcher, each with the
\* type it is defined for
JoinAttrRules(d) ==
    {tr \in UNION {{<<t, d.definitions[t][j]>> :
                        j \in 1..Len(d.definitions[t])} :
                   t \in DOMAIN d.definitions} :
        tr[2].cls = "JoinAttr"}

\* the rendering of element 1, then for each later element one walk of the
\* separator against the owning node and the rendering of the element
JoinAttrExpected(rule, d, node) ==
    LET g == Attr_getattr(rule, d, node)
        elements == g.val.l
    IN  g.ev \o
        Flatten([j \in 1..Len(elements) |->
                    (IF j = 1 THEN <<>> ELSE _walk(d, node, rule.sub))
                    \o _walk(d, elements[j],
                             Dispatcher_getitem(d, elements[j]))])

\* the walks of the JoinAttr rules of the dispatcher at hand over every
\* node of their type, when no error is raised
JoinAttrAsExpected ==
    (pc = "walk" /\ out = <<>> /\ tokens_handled = <<>>
     /\ deferred_handled = <<>> /\ layout_rule_chunks = <<>>)
        => \A tr \in JoinAttrRules(dispatcher) :
           \A node \in DOMAIN Node :
              Node[node].type = tr[1] =>
                 LET evs == JoinAttr_call(tr[2], dispatcher, node)
                     separator == _walk(dispatcher, node, tr[2].sub)
                 IN  ~Raised(evs) =>
                        /\ evs = JoinAttrExpected(tr[2], dispatcher, node)
                        /\ \A j \in 1..Len(separator) :
                              separator[j].node = node

\* function a(b, c): n parameters, n - 1 separators, the Space of each
\* separator handled for the FuncDecl
FuncDeclRendering ==
    (pc = "done" /\ root \in 100..(100 + MaxItems)) =>
        LET n == root - 100
            spaces == SelectSeq(layouts_handled,
                                LAMBDA l : l.rule = <<"Space">>)
        IN  /\ Texts(out) =
                  <<"function", " ", ResolvedText(150), "(">>
                  \o Flatten([j \in 1..n |->
                                 (IF j = 1 THEN <<>> ELSE <<",", " ">>)
                                 \o <<ResolvedText(150 + j)>>])
                  \o <<")">>
            /\ Len(spaces) = 1 + (IF n = 0 THEN 0 ELSE n - 1)
            /\ \A j \in 1..Len(spaces) : spaces[j].node = root

\* C12: JoinAttr over n elements emits nothing for n = 0 and otherwise the
\* rendering of element 1, then for each later element one walk of the
\* separator and the rendering of the element: n renderings, n - 1
\* separators, none leading or trailing; the separator is walked against
\* the node that owns the JoinAttr, so its markers are queued for that node.
C12_JoinAttr == JoinAttrAsExpected /\ FuncDeclRendering

\* function a(b, c) rendered: two Spaces handled for the FuncDecl, the
\* second one between "," and "c"
C12_Witness ==
    /\ pc = "done" /\ root = 100 + MaxItems
    /\ dispatcher.replacement = <<>>
    /\ Len(SelectSeq(out, LAMBDA c : c.text = ",")) = MaxItems - 1
    /\ \E j \in 1..Len(layouts_handled) :
          /\ layouts_handled[j].node = root
          /\ layouts_handled[j].before = Some(",")
          /\ layouts_handled[j].after = Some(NameOf[MaxItems + 1])

(***************************************************************************)
(* C13.  ElisionJoinAttr.                                                  *)
(***************************************************************************)
\* the Arrays whose walk raises nothing: [1,,a]  [,,1]  []  [a, 1,,,, b]
ArrayRoots == {40, 42, 44, 52}

\* the text an element of an Array is rendered as
ElementText(node) ==
    IF isinstance_Elision(node)
    THEN Repeat(",", Node[node].attrs.value.i)
    ELSE IF Node[node].type = "Identifier" THEN ResolvedText(node)
    ELSE Node[node].attrs.value.s

\* the texts of an Array: comma[j] and value[j] say whether the ',' and
\* the join value (a Space) come between elements j - 1 and j
ArrayTexts(items, comma, value) ==
    <<"[">>
    \o Flatten([j \in 1..Len(items) |->
                   (IF j > 1 /\ comma[j] THEN <<",">> ELSE <<>>)
                   \o (IF j > 1 /\ value[j] THEN <<" ">> ELSE <<>>)
                   \o <<ElementText(items[j])>>])
    \o <<"]">>

PreviousIsElision(items) ==
    [j \in 1..Len(items) |-> j > 1 /\ isinstance_Elision(items[j - 1])]
NextIsElision(items) ==
    [j \in 1..Len(items) |-> isinstance_Elision(items[j])]

\* C13 as stated: between two consecutive elements ElisionJoinAttr emits
\* the ',' only when neither the previous nor the next element is an
\* Elision, and the join value under the same condition.
C13_EitherNeighbour ==
    (pc = "done" /\ root \in ArrayRoots) =>
        LET items == Node[root].attrs.items.l
            neither == [j \in 1..Len(items) |->
                           ~PreviousIsElision(items)[j]
                           /\ ~NextIsElision(items)[j]]
        IN  Texts(out) = ArrayTexts(items, neither, neither)

\* C13: between two consecutive elements ElisionJoinAttr emits the ','
\* when and only when the previous element is no Elision, and the join
\* value when and only when the next element is no Elision; the ',' is
\* made with the next element as its node.
C13_PreviousAndNext ==
    (pc = "done" /\ root \in ArrayRoots) =>
        LET items == Node[root].attrs.items.l
        IN  /\ Texts(out) =
                  ArrayTexts(items,
                             [j \in 1..Len(items) |->
                                 ~PreviousIsElision(items)[j]],
                             [j \in 1..Len(items) |->
                                 ~NextIsElision(items)[j]])
            /\ \A j \in 1..Len(tokens_handled) :
                  (tokens_handled[j][1] = Text(",")
                   /\ tokens_handled[j][3] = StrV(","))
                      => tokens_handled[j][2] \in Range(items)

\* [a, 1,,,, b] rendered: a ',' before the first Elision, none after the
\* second, a Space before b
C13_Witness ==
    /\ pc = "done" /\ root = 52 /\ dispatcher.replacement = <<>>
    /\ Texts(out) = <<"[", "a", ",", " ", "1", ",", ",", ",,", " ", "b", "]">>

(***************************************************************************)
(* C14.  Attr.                                                             *)
(***************************************************************************)
\* the Attr rules (Operator is an Attr) of the definitions of a dispatcher,
\* each with the type it is defined for
AttrRules(d) ==
    {tr \in UNION {{<<t, d.definitions[t][j]>> :
                        j \in 1..Len(d.definitions[t])} :
                   t \in DOMAIN d.definitions} :
        tr[2].cls \in {"Attr", "Operator"}}

\* what the walk of one Attr rule against one node does, after the value
\* was fetched as g
AttrAsStated(rule, node, g) ==
    LET evs == Attr_call(rule, dispatcher, node)
        rest == SubSeq(evs, Len(g.ev) + 1, Len(evs))
    IN  /\ IsPrefix(g.ev, evs)
        /\ is_empty(g.val) => rest = <<>>
        /\ (~is_empty(g.val) /\ isinstance_Node(g.val)
            /\ HasDefinition(dispatcher, g.val.n))
              => rest = _walk(dispatcher, g.val.n,
                              dispatcher.definitions[Node[g.val.n].type])
        /\ (~is_empty(g.val) /\ ~isinstance_Node(g.val))
              => /\ Len(rest) = 1
                 /\ rest[1].e = "chunk"
                 /\ rest[1].handler = dispatcher.token_handler
                 /\ rest[1].rule = rule
                 /\ rest[1].node = node
                 /\ rest[1].value = g.val

AttrRulesAsStated ==
    (pc = "walk" /\ out = <<>> /\ tokens_handled = <<>>
     /\ deferred_handled = <<>> /\ layout_rule_chunks = <<>>)
        => \A tr \in AttrRules(dispatcher) :
           \A node \in DOMAIN Node :
              Node[node].type = tr[1] =>
                 LET g == IF tr[2].cls = "Operator"
                          THEN Operator_getattr(tr[2], dispatcher, node)
                          ELSE Attr_getattr(tr[2], dispatcher, node)
                 IN  ~Raised(g.ev) => AttrAsStated(tr[2], node, g)

\* the token handler is never called with an empty value or with a Node,
\* and the chunk it yields carries the value it was called with
TokenHandlerCalls ==
    /\ \A j \in 1..Len(tokens_handled) :
          /\ ~is_empty(tokens_handled[j][3])
          /\ ~isinstance_Node(tokens_handled[j][3])
    /\ Len(Content(out)) <= Len(tokens_handled)
    /\ \A j \in 1..Len(Content(out)) :
          /\ Content(out)[j].node = tokens_handled[j][2]
          /\ Content(out)[j].text = tokens_handled[j][3].s

\* { } with a body that is None or an empty list: "{" and "}" only
EmptyBodies ==
    (pc = "done" /\ root \in {60, 62})
        => Texts(Content(out)) = <<"{", "}">>

\* C14: Attr yields no chunk and does not call the token handler when the
\* fetched value is None or an empty list; when the value is a Node it
\* yields exactly the walk of that node with the definition of the node's
\* type; otherwise it calls the token handler once with (rule, dispatcher,
\* node, value) and yields the chunks the handler produces.
C14_Attr == AttrRulesAsStated /\ TokenHandlerCalls /\ EmptyBodies

\* var a = 1, b rendered: the initializer of b is None, and the last
\* token handled is the ';' after the Operator of b
C14_Witness ==
    /\ pc = "done" /\ root = 20 /\ dispatcher.definitions = FullDefinitions
    /\ Len(tokens_handled) >= 2
    /\ tokens_handled[Len(tokens_handled)][3] = StrV(";")
    /\ tokens_handled[Len(tokens_handled) - 1][1] = Operator("=")
    /\ tokens_handled[Len(tokens_handled) - 1][2] = 22

(***************************************************************************)
(* C15.  Optional.                                                         *)
(***************************************************************************)
OptionalRules(d) ==
    {tr \in UNION {{<<t, d.definitions[t][j]>> :
                        j \in 1..Len(d.definitions[t])} :
                   t \in DOMAIN d.definitions} :
        tr[2].cls = "Optional"}

\* the walk of every Optional rule of the dispatcher at hand against
\* every node of its type
OptionalRulesAsStated ==
    (pc = "walk" /\ out = <<>> /\ tokens_handled = <<>>
     /\ deferred_handled = <<>> /\ layout_rule_chunks = <<>>)
        => \A tr \in OptionalRules(dispatcher) :
           \A node \in DOMAIN Node :
              Node[node].type = tr[1] =>
                 LET value == Node[node].attrs[tr[2].attr]
                     evs == Optional_call(tr[2], dispatcher, node)
                 IN  /\ (value.k = "none" \/ value = ListV(<<>>))
                           => evs = <<>>
                     /\ (value.k # "none" /\ value # ListV(<<>>))
                           => evs = _walk(dispatcher, node, tr[2].sub)

\* var a = 1, b with the initializer under Optional: nothing is yielded,
\* queued or handled for the VarDecl of b after its identifier
NoInitializerRendering ==
    (pc = "done" /\ root \in {20, 26}
     /\ dispatcher.definitions = OptionalDefinitions)
        => /\ Texts(out) = <<"var", " ", ResolvedText(4), " ", "=", " ", "1",
                             ",", " ", ResolvedText(23), ";">>
           /\ \A j \in 1..Len(tokens_handled) :
                 tokens_handled[j][2] \notin {22, 24}
           /\ \A j \in 1..Len(layouts_handled) :
                 layouts_handled[j].node \notin {22, 24}

\* C15: Optional yields exactly the walk of its wrapped rules against the
\* same node when the named attribute is not empty, and yields nothing,
\* queues no marker and calls no handler when the attribute is None or an
\* empty list.
C15_Optional == OptionalRulesAsStated /\ NoInitializerRendering

\* var a = 1, b rendered with the initializer under Optional: the wrapped
\* rules were walked for a (a Space handled for its VarDecl before '=')
\* and not for b, whose initializer is an empty list
C15_Witness ==
    /\ pc = "done" /\ root = 26
    /\ dispatcher.definitions = OptionalDefinitions
    /\ dispatcher.replacement = <<>>
    /\ Join(Texts(out)) = "var a = 1, b;"
    /\ \E j \in 1..Len(layouts_handled) :
          layouts_handled[j].node = 3 /\ layouts_handled[j].after = Some("=")

(***************************************************************************)
(* The Shortener called by hand: any sequence of calls of push_scope,      *)
(* pop_scope, declare and resolve on one Shortener, no walk running.       *)
(***************************************************************************)
\* the calls of push_scope, and of declare and resolve, that may return
MaxScopes == 3
MaxDeferred == 2

\* the nodes push_scope is called with
ScopeNodes == {100, 101}
\* the nodes declare is called with: the VarDecl of a, and an Identifier
\* (which has no identifier)
DeclareNodes == {3, 4}
\* the nodes resolve is called with: the Identifiers a and b
ResolveNodes == {4, 23}

walk_vars ==
    <<dispatcher, root, gen, layout_rule_chunks, last_chunk, chunk, batch,
      prev_text, pc, out, tokens_handled, layouts_handled, declared_vars,
      deferred_handled, other_walk, codec>>

ShortenerInit ==
    Is([InitWalk(Dispatcher(FullDefinitions, "simple_token_maker", <<>>,
                            <<>>, <<>>, <<>>), 1)
           EXCEPT !.gen = <<>>, !.pc = "idle"])

CallPushScope ==
    /\ pc = "idle" /\ calls.push_scope < MaxScopes
    /\ \E node \in ScopeNodes :
          /\ shortener' = push_scope(shortener, node)
          /\ calls' = Called(calls, "push_scope", shortener, shortener', node)
    /\ UNCHANGED walk_vars

CallPopScope ==
    /\ pc = "idle"
    /\ shortener' = pop_scope(shortener)
    /\ calls' = Called(calls, "pop_scope", shortener, shortener', 0)
    /\ UNCHANGED walk_vars

CallDeclare ==
    /\ pc = "idle" /\ calls.declare + calls.resolve < MaxDeferred
    /\ \E node \in DeclareNodes :
          /\ shortener' = Shortener_declare(shortener, node)
          /\ calls' = Called(calls, "declare", shortener, shortener', node)
    /\ UNCHANGED walk_vars

CallResolve ==
    /\ pc = "idle" /\ calls.declare + calls.resolve < MaxDeferred
    /\ \E node \in ResolveNodes :
          /\ shortener' = Shortener_resolve(shortener, node)
          /\ calls' = Called(calls, "resolve", shortener, shortener', node)
    /\ UNCHANGED walk_vars

ShortenerNext ==
    \/ CallPushScope
    \/ CallPopScope
    \/ CallDeclare
    \/ CallResolve

ShortenerSpec == ShortenerInit /\ [][ShortenerNext]_vars

(***************************************************************************)
(* C16.  consumed_symbols.                                                 *)
(***************************************************************************)
\* the symbols declared in the Scope s
DeclaredIn(s) == shortener.heap[s].local_symbols

\* C16: after any sequence of push_scope, pop_scope and declare every
\* Scope made refers to one and the same consumed_symbols set, and that
\* set holds every symbol declared in any Scope, Scopes that are neither
\* ancestors nor descendants of each other included.
C16_OneConsumedSet ==
    \A s, t \in 1..Len(shortener.heap) :
        /\ shortener.heap[s].consumed_symbols
               = shortener.heap[t].consumed_symbols
        /\ DeclaredIn(t)
               \subseteq shortener.sets[shortener.heap[s].consumed_symbols]

(***************************************************************************)
(* C17.  The stack of Scopes.                                              *)
(***************************************************************************)
\* the parent of each stacked Scope is the Scope directly below it, the
\* bottom one has none
StackIsParentChain ==
    \A j \in 1..Len(shortener.stack) :
        shortener.heap[shortener.stack[j]].parent
            = IF j = 1 THEN 0 ELSE shortener.stack[j - 1]

DepthIsPushesLessPops ==
    Len(shortener.stack) = calls.push_scope - calls.pop_scope

\* a call of push_scope that returns: one new Scope, whose parent is the
\* stack top found, recorded under its node and pushed
PushScopeStep ==
    calls'.push_scope = calls.push_scope + 1 =>
        LET made == Len(shortener'.heap)
        IN  /\ made = Len(shortener.heap) + 1
            /\ SubSeq(shortener'.heap, 1, made - 1) = shortener.heap
            /\ shortener'.heap[made].parent = current_scope(shortener)
            /\ shortener'.heap[made].parent
                   = IF shortener.stack = <<>> THEN 0
                     ELSE shortener.stack[Len(shortener.stack)]
            /\ shortener'.scopes[shortener'.heap[made].node] = made
            /\ \A node \in DOMAIN shortener.scopes :
                  node # shortener'.heap[made].node
                      => shortener'.scopes[node] = shortener.scopes[node]
            /\ shortener'.stack = Append(shortener.stack, made)

\* a call of pop_scope that returns removes the stack top and nothing else
PopScopeStep ==
    calls'.pop_scope = calls.pop_scope + 1 =>
        /\ shortener.stack # <<>>
        /\ shortener'.stack
               = SubSeq(shortener.stack, 1, Len(shortener.stack) - 1)
        /\ shortener'.heap = shortener.heap
        /\ shortener'.scopes = shortener.scopes
        /\ shortener'.sets = shortener.sets

\* C17: push_scope makes a Scope whose parent is the stack top at that
\* moment (none when the stack is empty), records it under the node and
\* pushes it; pop_scope removes exactly the stack top.  In every state the
\* stack is a parent chain and its depth is the number of pushes less the
\* number of pops.
C17_ParentChain ==
    /\ [](StackIsParentChain /\ DepthIsPushesLessPops)
    /\ [][PushScopeStep /\ PopScopeStep]_vars

\* three pushes and a pop between them: two Scopes stacked, the upper one
\* made after the pop with the lower one as its parent
C17_Witness ==
    /\ pc = "idle"
    /\ calls.push_scope = 3 /\ calls.pop_scope = 1
    /\ shortener.stack = <<1, 3>>
    /\ shortener.heap[3].parent = 1 /\ shortener.heap[2].parent = 1
    /\ shortener.heap[1].parent = 0

(***************************************************************************)
(* C18.  declare.                                                          *)
(***************************************************************************)
\* the set a Scope holds as consumed_symbols
ConsumedOf(sh, s) == sh.sets[sh.heap[s].consumed_symbols]

LocalSymbolsAreConsumedAndCounted ==
    \A s \in 1..Len(shortener.heap) :
        /\ shortener.heap[s].local_symbols \subseteq ConsumedOf(shortener, s)
        /\ shortener.heap[s].local_symbols
               \subseteq DOMAIN shortener.heap[s].referenced_symbols

\* a call of declare that returns, for the symbol and the current Scope
DeclareAdds(symbol, cur) ==
    /\ shortener'.heap[cur].local_symbols
           = shortener.heap[cur].local_symbols \cup {symbol}
    /\ ConsumedOf(shortener', cur)
           = ConsumedOf(shortener, cur) \cup {symbol}
    /\ DOMAIN shortener'.heap[cur].referenced_symbols
           = DOMAIN shortener.heap[cur].referenced_symbols \cup {symbol}
    /\ shortener'.heap[cur].referenced_symbols[symbol]
           = IF symbol \in DOMAIN shortener.heap[cur].referenced_symbols
             THEN shortener.heap[cur].referenced_symbols[symbol]
             ELSE 0
    /\ \A other \in DOMAIN shortener.heap[cur].referenced_symbols :
          shortener'.heap[cur].referenced_symbols[other]
              = IF other = symbol
                THEN shortener'.heap[cur].referenced_symbols[symbol]
                ELSE shortener.heap[cur].referenced_symbols[other]
    /\ \A s \in 1..Len(shortener.heap) :
          s # cur => shortener'.heap[s] = shortener.heap[s]
    /\ Len(shortener'.heap) = Len(shortener.heap)
    /\ shortener'.stack = shortener.stack
    /\ shortener'.scopes = shortener.scopes

DeclareStep ==
    calls'.declare = calls.declare + 1 =>
        /\ shortener.stack # <<>>
        /\ DeclareAdds("a", current_scope(shortener))

DeclaringTwiceIsDeclaringOnce ==
    \A node \in DeclareNodes :
        LET once == Shortener_declare(shortener, node)
        IN  once.raised = "" => Shortener_declare(once, node) = once

\* C18: declare adds the symbol to the local_symbols of the current scope
\* and to consumed_symbols, and sets its reference count to 0 only when the
\* scope has no count for it, leaving a count there is unchanged.  In every
\* state the local_symbols of each scope are within consumed_symbols and
\* within the keys of its referenced_symbols, and declaring a symbol twice
\* gives the state declaring it once gives.
C18_Declare ==
    /\ [](LocalSymbolsAreConsumedAndCounted /\ DeclaringTwiceIsDeclaringOnce)
    /\ [][DeclareStep]_vars

\* a resolved once and declared, in one scope: the count is 1 and a is a
\* local symbol
C18_Witness ==
    /\ pc = "idle"
    /\ Len(shortener.heap) = 1 /\ shortener.stack = <<1>>
    /\ calls.declare = 1 /\ calls.resolve = 1
    /\ shortener.heap[1].local_symbols = {"a"}
    /\ shortener.heap[1].referenced_symbols = ("a" :> 1)
    /\ shortener.sets = <<{"a"}>>

(***************************************************************************)
(* C19.  resolve.                                                          *)
(***************************************************************************)
\* a call of resolve that returns, for the symbol and the current Scope
ResolveCounts(symbol, cur) ==
    /\ shortener'.heap[cur].referenced_symbols
           = (symbol :> DictGet(shortener.heap[cur].referenced_symbols,
                                symbol, 0) + 1)
             @@ shortener.heap[cur].referenced_symbols
    /\ shortener'.heap[cur].local_symbols
           = shortener.heap[cur].local_symbols
    /\ shortener'.heap[cur].consumed_symbols
           = shortener.heap[cur].consumed_symbols
    /\ shortener'.heap[cur].parent = shortener.heap[cur].parent
    /\ shortener'.heap[cur].node = shortener.heap[cur].node
    /\ \A s \in 1..Len(shortener.heap) :
          s # cur => shortener'.heap[s] = shortener.heap[s]
    /\ Len(shortener'.heap) = Len(shortener.heap)
    /\ shortener'.sets = shortener.sets
    /\ shortener'.stack = shortener.stack
    /\ shortener'.scopes = shortener.scopes

ResolveStep ==
    calls'.resolve = calls.resolve + 1 =>
        /\ shortener.stack # <<>>
        /\ \E symbol \in {"a", "b"} :
              ResolveCounts(symbol, shortener.stack[Len(shortener.stack)])

\* the count a Scope holds for a symbol is the number of calls of resolve
\* for the symbol made while the Scope was on top of the stack
CountIsResolves ==
    \A s \in 1..Len(shortener.heap) : \A symbol \in {"a", "b"} :
        DictGet(shortener.heap[s].referenced_symbols, symbol, 0)
            = DictGet(calls.resolved, <<s, symbol>>, 0)

\* C19: resolve raises the reference count of the symbol by exactly 1 in
\* the scope on top of the stack and changes nothing else: not the counts
\* of any other scope (the ancestors included, also when the symbol was
\* declared in one), no local_symbols, not consumed_symbols, the stack or
\* the scope map; after k resolves of a symbol in a scope its count there
\* is k.
C19_Resolve ==
    /\ []CountIsResolves
    /\ [][ResolveStep]_vars

\* a declared in a scope and resolved in a scope within it: counted 1
\* there, 0 where it was declared
C19_Witness ==
    /\ pc = "idle"
    /\ shortener.stack = <<1, 2>>
    /\ shortener.heap[1].local_symbols = {"a"}
    /\ shortener.heap[1].referenced_symbols = ("a" :> 0)
    /\ shortener.heap[2].referenced_symbols = ("a" :> 1)
    /\ shortener.heap[2].local_symbols = {}
    /\ calls.resolve = 1

(***************************************************************************)
(* The first pass of the Shortener: a walk with its push_scope and         *)
(* pop_scope as layout handlers and its declare and resolve as deferred    *)
(* handlers.                                                               *)
(***************************************************************************)
FirstPassInit == \E input \in FirstPassInputs : Is(InitWalk(input[1], input[2]))

FirstPassSpec == FirstPassInit /\ [][Next]_vars

(***************************************************************************)
(* C20.                                                                    *)
(***************************************************************************)
\* the PushScope and PopScope markers the walk at hand queues
ScopeMarkers(name) ==
    SelectSeq(Stream, LAMBDA ev : ev.e = "layout" /\ ev.key = name)

\* the places of the markers of that name handled so far
ScopeMarkersHandled(name) ==
    LET handled == SelectSeq(layouts_handled, LAMBDA l : l.rule = <<name>>)
    IN  [j \in 1..Len(handled) |-> handled[j].idxs[1]]

\* C20: when a first-pass walk with the push_scope and pop_scope layout
\* handlers and the declare and resolve deferred handlers of a Shortener,
\* over definitions in which every PushScope is followed by a PopScope in
\* the same definition, is consumed to its end without error, every
\* queued PushScope and PopScope has been handled, the stack of scopes is
\* back at its initial depth, and the scope map holds one Scope for each
\* node that queued a PushScope, and for no other.
C20_FirstPass ==
    pc = "done" =>
        LET pushes == ScopeMarkers("PushScope")
            pops == ScopeMarkers("PopScope")
        IN  /\ ScopeMarkersHandled("PushScope")
                  = [j \in 1..Len(pushes) |-> pushes[j].idx]
            /\ ScopeMarkersHandled("PopScope")
                  = [j \in 1..Len(pops) |-> pops[j].idx]
            /\ calls.push_scope = Len(pushes)
            /\ calls.pop_scope = Len(pops)
            /\ shortener.stack = <<>>
            /\ DOMAIN shortener.scopes
                  = {pushes[j].node : j \in 1..Len(pushes)}
            /\ \A node \in DOMAIN shortener.scopes :
                  /\ shortener.scopes[node] \in 1..Len(shortener.heap)
                  /\ shortener.heap[shortener.scopes[node]].node = node

\* function(){ function(){ a a } }  function(){ b } walked to its end with
\* the scope entered after '(': three Scopes, the second within the first,
\* a counted twice in the second and b once in the third
C20_Witness ==
    /\ pc = "done" /\ root = 200
    /\ shortener.stack = <<>>
    /\ shortener.scopes = (201 :> 1) @@ (202 :> 2) @@ (204 :> 3)
    /\ shortener.heap[2].parent = 1 /\ shortener.heap[3].parent = 0
    /\ shortener.heap[2].referenced_symbols = ("a" :> 2)
    /\ shortener.heap[3].referenced_symbols = ("b" :> 1)
    /\ calls.push_scope = 3 /\ calls.pop_scope = 3

(***************************************************************************)
(* vlq.py: the VLQ codec of source maps.  A text is a sequence of          *)
(* characters, each a string of length 1.  A decoder gives                 *)
(* [error, values]: error tells that it raised (a character that is not    *)
(* of the alphabet, a text that ends within an integer).                   *)
(***************************************************************************)
\* the base64 alphabet: the character of the value v is Alphabet[v + 1]
Alphabet ==
    <<"A", "B", "C", "D", "E", "F", "G", "H", "I", "J", "K", "L", "M",
      "N", "O", "P", "Q", "R", "S", "T", "U", "V", "W", "X", "Y", "Z",
      "a", "b", "c", "d", "e", "f", "g", "h", "i", "j", "k", "l", "m",
      "n", "o", "p", "q", "r", "s", "t", "u", "v", "w", "x", "y", "z",
      "0", "1", "2", "3", "4", "5", "6", "7", "8", "9", "+", "/">>

\* the value of a character of the alphabet
AlphabetValue(c) == (CHOOSE v \in 1..Len(Alphabet) : Alphabet[v] = c) - 1

\* the continuation bit is set on every group, the last included
RECURSIVE encode_groups_always_continued(_)
encode_groups_always_continued(v) ==
    IF v \div 32 = 0 THEN <<Alphabet[(v % 32) + 32 + 1], Alphabet[1]>>
    ELSE <<Alphabet[(v % 32) + 32 + 1]>>
         \o encode_groups_always_continued(v \div 32)

\* the groups of 5 bits of v, the least significant first, each but the
\* last with the continuation bit
RECURSIVE encode_groups(_)
encode_groups(v) ==
    IF v \div 32 = 0 THEN <<Alphabet[(v % 32) + 1]>>
    ELSE <<Alphabet[(v % 32) + 32 + 1]>> \o encode_groups(v \div 32)

\* the sign is dropped
encode_vlq_unsigned(n) == encode_groups(IF n >= 0 THEN 2 * n ELSE -2 * n)

\* the sign is carried by bit 0
encode_vlq(n) == encode_groups(IF n >= 0 THEN 2 * n ELSE -2 * n + 1)

RECURSIVE encode_vlqs(_)
\* the integers encoded one after the other, nothing between them
encode_vlqs(ints) ==
    IF ints = <<>> THEN <<>>
    ELSE encode_vlq(Head(ints)) \o encode_vlqs(Tail(ints))

\* the integer an unsigned value stands for
FromVLQSigned(v) == IF v % 2 = 0 THEN v \div 2 ELSE -((v - 1) \div 2)

RECURSIVE decode_from(_, _, _, _)
\* text is read with the integers decoded so far, and the value and the
\* weight of the next group of the integer at hand (weight 0: none begun)
decode_from(text, values, acc, weight) ==
    IF text = <<>>
    THEN [error |-> weight # 0, values |-> values]
    ELSE IF \A v \in 1..Len(Alphabet) : Alphabet[v] # Head(text)
    THEN [error |-> TRUE, values |-> values]
    ELSE LET digit == AlphabetValue(Head(text))
             w == IF weight = 0 THEN 1 ELSE weight
             value == acc + (digit % 32) * w
         IN  IF digit >= 32
             THEN decode_from(Tail(text), values, value, w * 32)
             ELSE decode_from(Tail(text),
                              Append(values, FromVLQSigned(value)), 0, 0)

\* the integers of a text
decode_vlqs(text) == decode_from(text, <<>>, 0, 0)

\* the integer of a text
decode_vlq(text) ==
    LET decoded == decode_vlqs(text)
    IN  [error |-> decoded.error \/ decoded.values = <<>>,
         values |-> IF decoded.values = <<>> THEN <<>>
                    ELSE <<decoded.values[1]>>]

RECURSIVE str_join(_, _)
\* sep.join(texts)
str_join(sep, texts) ==
    IF texts = <<>> THEN <<>>
    ELSE IF Len(texts) = 1 THEN texts[1]
    ELSE texts[1] \o sep \o str_join(sep, Tail(texts))

RECURSIVE str_split_from(_, _, _)
str_split_from(text, sep, part) ==
    IF text = <<>> THEN <<part>>
    ELSE IF Head(text) = sep
         THEN <<part>> \o str_split_from(Tail(text), sep, <<>>)
         ELSE str_split_from(Tail(text), sep, Append(part, Head(text)))

\* text.split(sep): one more part than there are separators
str_split(text, sep) == str_split_from(text, sep, <<>>)


\* the lines are encoded with a ';' after each of them
encode_mappings_terminated(mappings) ==
    LET encode_line(line) ==
            str_join(<<",">>, [i \in 1..Len(line) |-> encode_vlqs(line[i])])
        Terminated[i \in 0..Len(mappings)] ==
            IF i = 0 THEN <<>>
            ELSE Terminated[i - 1] \o encode_line(mappings[i]) \o <<";">>
    IN  Terminated[Len(mappings)]

\* the segments of a line are encoded as they are given and joined with
\* ',', the lines are joined with ';'
encode_mappings(mappings) ==
    LET encode_line(line) ==
            str_join(<<",">>, [i \in 1..Len(line) |-> encode_vlqs(line[i])])
    IN  str_join(<<";">>,
                 [i \in 1..Len(mappings) |-> encode_line(mappings[i])])

\* the fragments of a line that are not empty
Fragments(line) == SelectSeq(str_split(line, ","), LAMBDA frag : frag # <<>>)

\* every field of a segment is added to the field of the segment before
\* it: of the line for the first field, of the mapping for the others
decode_mappings_accumulating(mappings_str) ==
    LET lines == str_split(mappings_str, ";")
        decode_line(line) ==
            [i \in 1..Len(Fragments(line)) |-> decode_vlqs(Fragments(line)[i])]
        raw == [i \in 1..Len(lines) |->
                   [j \in 1..Len(decode_line(lines[i])) |->
                       decode_line(lines[i])[j].values]]
        Sum[f \in 1..4, i \in 0..Len(lines), j \in 0..Len(mappings_str)] ==
            IF i = 0 THEN 0
            ELSE IF j = 0
            THEN IF f = 1 THEN 0
                 ELSE Sum[f, i - 1, IF i = 1 THEN 0 ELSE Len(raw[i - 1])]
            ELSE Sum[f, i, j - 1]
                 + (IF f <= Len(raw[i][j]) THEN raw[i][j][f] ELSE 0)
    IN  [error |-> \E i \in 1..Len(lines) :
                      \E j \in 1..Len(decode_line(lines[i])) :
                         decode_line(lines[i])[j].error,
         values |-> [i \in 1..Len(lines) |->
                       [j \in 1..Len(raw[i]) |->
                           [f \in 1..Len(raw[i][j]) |->
                               IF f <= 4 THEN Sum[f, i, j]
                               ELSE raw[i][j][f]]]]]

\* the text is split on ';' into lines and each line on ',' into
\* fragments; the integers of each fragment make a segment
decode_mappings(mappings_str) ==
    LET lines == str_split(mappings_str, ";")
        decode_line(line) ==
            [i \in 1..Len(Fragments(line)) |-> decode_vlqs(Fragments(line)[i])]
    IN  [error |-> \E i \in 1..Len(lines) :
                      \E j \in 1..Len(decode_line(lines[i])) :
                         decode_line(lines[i])[j].error,
         values |-> [i \in 1..Len(lines) |->
                       [j \in 1..Len(decode_line(lines[i])) |->
                           decode_line(lines[i])[j].values]]]

\* the document has a sourceRoot whatever source_root is
create_sourcemap_with_root(filename, mappings, sources, names, source_root) ==
    [k \in {"version", "sources", "names", "mappings", "file", "sourceRoot"} |->
        CASE k = "version" -> 3
          [] k = "sources" -> sources
          [] k = "names" -> names
          [] k = "mappings" -> encode_mappings(mappings)
          [] k = "file" -> filename
          [] k = "sourceRoot" -> source_root]

\* the source map document; source_root is None where it is not given
create_sourcemap(filename, mappings, sources, names, source_root) ==
    [k \in {"version", "sources", "names", "mappings", "file"}
           \cup (IF source_root # None THEN {"sourceRoot"} ELSE {}) |->
        CASE k = "version" -> 3
          [] k = "sources" -> sources
          [] k = "names" -> names
          [] k = "mappings" -> encode_mappings(mappings)
          [] k = "file" -> filename
          [] k = "sourceRoot" -> source_root[1]]


(***************************************************************************)
(* The codec called by a caller: an integer, a sequence of integers or a   *)
(* mapping is encoded and the text decoded again, or a source map          *)
(* document is built.                                                      *)
(***************************************************************************)
MaxVlq == 1030
MaxSeq == 3
MaxLines == 3
MaxSegs == 2

\* the integers encoded: a range around 0, and integers of 4 groups
VlqInts == (-MaxVlq..MaxVlq) \cup {-16384, 16383, 16384}

\* the integers of the sequences encoded
VlqSamples == {0, -1, 16, 123, 456, 789}

\* the sequences over a set, up to a length
SeqsUpTo(S, n) == UNION {[1..k -> S] : k \in 0..n}

\* the segments of the mappings encoded
Segments == {<<6, 0, 0, 6>>, <<8, 1, -2, 16>>}

\* the mappings encoded: the empty lines are at any position
Mappings == SeqsUpTo(SeqsUpTo(Segments, MaxSegs), MaxLines)

\* the arguments of create_sourcemap
SourcemapArgs ==
    [filename : {"hello.min.js"},
     mappings : SeqsUpTo(SeqsUpTo(Segments, 1), MaxLines),
     sources : {<<"hello.js">>},
     names : {<<>>, <<"hello">>},
     source_root : {None, Some("/src")}]

VlqInit ==
    /\ IsWalk([InitWalk(Dispatcher(FullDefinitions, "simple_token_maker",
                                   <<>>, <<>>, <<>>, <<>>), 1)
                  EXCEPT !.gen = <<>>, !.pc = "idle"])
    /\ other_walk = NoWalk
    /\ \/ \E n \in VlqInts : codec = [pc |-> "encode_vlq", n |-> n]
       \/ \E ints \in SeqsUpTo(VlqSamples, MaxSeq) :
             codec = [pc |-> "encode_vlqs", ints |-> ints]
       \/ \E mappings \in Mappings :
             codec = [pc |-> "encode_mappings", mappings |-> mappings]
       \/ \E args \in SourcemapArgs :
             codec = [pc |-> "create_sourcemap", args |-> args]

codec_unchanged ==
    UNCHANGED <<dispatcher, root, gen, layout_rule_chunks, last_chunk, chunk,
                batch, prev_text, pc, out, tokens_handled, layouts_handled,
                declared_vars, deferred_handled, shortener, calls, other_walk>>

CallEncodeVlq ==
    /\ codec.pc = "encode_vlq"
    /\ codec' = [pc |-> "decode_vlq", n |-> codec.n,
                 text |-> encode_vlq(codec.n)]
    /\ codec_unchanged

CallDecodeVlq ==
    /\ codec.pc = "decode_vlq"
    /\ codec' = [pc |-> "vlq", n |-> codec.n, text |-> codec.text,
                 decoded |-> decode_vlq(codec.text)]
    /\ codec_unchanged

CallEncodeVlqs ==
    /\ codec.pc = "encode_vlqs"
    /\ codec' = [pc |-> "decode_vlqs", ints |-> codec.ints,
                 text |-> encode_vlqs(codec.ints)]
    /\ codec_unchanged

CallDecodeVlqs ==
    /\ codec.pc = "decode_vlqs"
    /\ codec' = [pc |-> "vlqs", ints |-> codec.ints, text |-> codec.text,
                 decoded |-> decode_vlqs(codec.text)]
    /\ codec_unchanged

CallEncodeMappings ==
    /\ codec.pc = "encode_mappings"
    /\ codec' = [pc |-> "decode_mappings", mappings |-> codec.mappings,
                 text |-> encode_mappings(codec.mappings)]
    /\ codec_unchanged

CallDecodeMappings ==
    /\ codec.pc = "decode_mappings"
    /\ codec' = [pc |-> "mappings", mappings |-> codec.mappings,
                 text |-> codec.text,
                 decoded |-> decode_mappings(codec.text)]
    /\ codec_unchanged

CallCreateSourcemap ==
    /\ codec.pc = "create_sourcemap"
    /\ codec' = [pc |-> "sourcemap", args |-> codec.args,
                 doc |-> create_sourcemap(codec.args.filename,
                                          codec.args.mappings,
                                          codec.args.sources,
                                          codec.args.names,
                                          codec.args.source_root)]
    /\ codec_unchanged

VlqNext ==
    \/ CallEncodeVlq
    \/ CallDecodeVlq
    \/ CallEncodeVlqs
    \/ CallDecodeVlqs
    \/ CallEncodeMappings
    \/ CallDecodeMappings
    \/ CallCreateSourcemap

VlqSpec == VlqInit /\ [][VlqNext]_vars


(***************************************************************************)
(* C21: decoding the encoding of an integer gives the integer, and         *)
(* decoding the encoding of a sequence of integers gives the integers in   *)
(* their order; the text of a sequence is the texts of its integers one    *)
(* after the other, with no character that is not of the alphabet.         *)
(***************************************************************************)
RECURSIVE Concatenated(_)
Concatenated(texts) ==
    IF texts = <<>> THEN <<>> ELSE Head(texts) \o Concatenated(Tail(texts))

C21_RoundTrip ==
    /\ codec.pc = "vlq"
          => /\ ~codec.decoded.error
             /\ codec.decoded.values = <<codec.n>>
    /\ codec.pc = "vlqs"
          => /\ ~codec.decoded.error
             /\ codec.decoded.values = codec.ints
             /\ codec.text
                    = Concatenated([i \in 1..Len(codec.ints) |->
                                       encode_vlq(codec.ints[i])])
             /\ \A i \in 1..Len(codec.text) :
                   \E v \in 1..Len(Alphabet) : Alphabet[v] = codec.text[i]

C21_Witness ==
    /\ codec.pc = "vlqs"
    /\ codec.ints = <<-1, 456, 789>>
    /\ codec.text = <<"D", "w", "c", "q", "x", "B">>
    /\ codec.decoded.values = <<-1, 456, 789>>

(***************************************************************************)
(* C22: the text of an integer n is that of 2n for n >= 0 and of -2n + 1   *)
(* for n < 0, in groups of 5 bits, the least significant first, every      *)
(* group but the last with the continuation bit 32, in as few groups as    *)
(* hold the value; 0, 1, -1, 15, 16, -16, 511, 512, -512 give A, C, D, e,  *)
(* gB, hB, +f, ggB, hgB.                                                   *)
(***************************************************************************)
\* 32 to the power k
RECURSIVE Pow32(_)
Pow32(k) == IF k = 0 THEN 1 ELSE 32 * Pow32(k - 1)

\* the number of groups of a value: the least that holds it
GroupCount(v) == CHOOSE k \in 1..4 : v < Pow32(k) /\ (k = 1 \/ v >= Pow32(k - 1))

ReferenceVlq(n) ==
    LET v == IF n >= 0 THEN 2 * n ELSE -2 * n + 1
    IN  [j \in 1..GroupCount(v) |->
            Alphabet[((v \div Pow32(j - 1)) % 32)
                     + (IF j < GroupCount(v) THEN 32 ELSE 0) + 1]]

\* test_encode_vlq_standard
EncodedAsTested(n, text) ==
    /\ n = 0 => text = <<"A">>
    /\ n = 1 => text = <<"C">>
    /\ n = -1 => text = <<"D">>
    /\ n = 15 => text = <<"e">>
    /\ n = 16 => text = <<"g", "B">>
    /\ n = -16 => text = <<"h", "B">>
    /\ n = 511 => text = <<"+", "f">>
    /\ n = 512 => text = <<"g", "g", "B">>
    /\ n = -512 => text = <<"h", "g", "B">>

C22_ReferenceEncoding ==
    codec.pc \in {"decode_vlq", "vlq"}
        => /\ codec.text = ReferenceVlq(codec.n)
           /\ EncodedAsTested(codec.n, codec.text)

C22_Witness ==
    /\ codec.pc = "decode_vlq"
    /\ codec.n = -512
    /\ codec.text = <<"h", "g", "B">>


(***************************************************************************)
(* C23: decoding the encoding of a mapping gives the mapping, for every    *)
(* sequence of lines of segments, the empty lines at any position          *)
(* included.                                                               *)
(***************************************************************************)
C23_RoundTrip ==
    codec.pc = "mappings"
        => /\ ~codec.decoded.error
           /\ codec.decoded.values = codec.mappings

\* the round trip of every mapping of one line at least
C23_RoundTripOfLines ==
    codec.pc = "mappings" /\ codec.mappings # <<>>
        => /\ ~codec.decoded.error
           /\ codec.decoded.values = codec.mappings


(***************************************************************************)
(* C24: the segments of a line are joined with ',' and a ';' terminates    *)
(* every line, the last included: the text of k lines holds k ';' and      *)
(* ends with ';'.                                                          *)
(***************************************************************************)
\* text.count(c)
str_count(text, c) == Cardinality({i \in 1..Len(text) : text[i] = c})

\* the segments of the lines of a mapping
SegmentCount(mappings, upto) ==
    Cardinality({<<i, j>> \in (1..upto) \X (1..MaxSegs + 1) :
                    j <= Len(mappings[i])})

CommasJoinSegments ==
    str_count(codec.text, ",")
        = SegmentCount(codec.mappings, Len(codec.mappings))
          - Cardinality({i \in 1..Len(codec.mappings) :
                            codec.mappings[i] # <<>>})

C24_TerminatedLines ==
    codec.pc \in {"decode_mappings", "mappings"}
        => /\ CommasJoinSegments
           /\ str_count(codec.text, ";") = Len(codec.mappings)
           /\ codec.mappings # <<>> => codec.text[Len(codec.text)] = ";"

\* C24 as amended: the lines are joined with ';': the text of k lines,
\* k >= 1, holds k - 1 ';', and it ends with ';' exactly when there are
\* two lines at least and the last line is empty
C24_JoinedLines ==
    codec.pc \in {"decode_mappings", "mappings"}
        => /\ CommasJoinSegments
           /\ codec.mappings # <<>>
                 => str_count(codec.text, ";") = Len(codec.mappings) - 1
           /\ codec.mappings = <<>> => codec.text = <<>>
           /\ (codec.text # <<>> /\ codec.text[Len(codec.text)] = ";")
                 <=> /\ Len(codec.mappings) >= 2
                     /\ codec.mappings[Len(codec.mappings)] = <<>>

C24_Witness ==
    /\ codec.pc = "decode_mappings"
    /\ Len(codec.mappings) = 3
    /\ Len(codec.mappings[1]) = 2
    /\ codec.mappings[2] = <<>>
    /\ codec.mappings[3] # <<>>
    /\ str_count(codec.text, ";") = 2
    /\ str_count(codec.text, ",") = 1


(***************************************************************************)
(* C25: decode_mappings gives for each segment the absolute values, the    *)
(* deltas of the text added up: those of generated_column from the start   *)
(* of the line, those of source_index, source_line and source_column from  *)
(* the start of the mapping.                                               *)
(***************************************************************************)
RECURSIVE FieldSum(_, _, _, _)
\* field f of the segments up to segment j of line i added up: from the
\* start of the line for field 1, from the start of the mapping otherwise
FieldSum(deltas, i, j, f) ==
    IF i = 0 THEN 0
    ELSE IF j = 0
    THEN IF f = 1 THEN 0
         ELSE FieldSum(deltas, i - 1,
                       IF i = 1 THEN 0 ELSE Len(deltas[i - 1]), f)
    ELSE FieldSum(deltas, i, j - 1, f) + deltas[i][j][f]

C25_Accumulated ==
    codec.pc = "mappings" /\ codec.mappings # <<>>
        => /\ Len(codec.decoded.values) = Len(codec.mappings)
           /\ \A i \in 1..Len(codec.mappings) :
                 /\ Len(codec.decoded.values[i]) = Len(codec.mappings[i])
                 /\ \A j \in 1..Len(codec.mappings[i]) :
                       codec.decoded.values[i][j]
                           = [f \in 1..4 |->
                                 FieldSum(codec.mappings, i, j, f)]

\* C25 as amended: decode_mappings gives for each segment the four values
\* as the text holds them; no field is added to that of a segment before
C25_ValuesOfTheText ==
    codec.pc = "mappings" /\ codec.mappings # <<>>
        => /\ Len(codec.decoded.values) = Len(codec.mappings)
           /\ \A i \in 1..Len(codec.mappings) :
                 /\ Len(codec.decoded.values[i]) = Len(codec.mappings[i])
                 /\ \A j \in 1..Len(codec.mappings[i]) :
                       codec.decoded.values[i][j]
                           = decode_vlqs(encode_vlqs(codec.mappings[i][j])).values

C25_Witness ==
    /\ codec.pc = "mappings"
    /\ codec.mappings
           = <<<<<<6, 0, 0, 6>>, <<6, 0, 0, 6>>>>, <<<<8, 1, -2, 16>>>>>>
    /\ codec.text = <<"M", "A", "A", "M", ",", "M", "A", "A", "M", ";",
                      "Q", "C", "F", "g", "B">>
    /\ codec.decoded.values[1][2] = <<6, 0, 0, 6>>
    /\ codec.decoded.values[2][1] = <<8, 1, -2, 16>>


(***************************************************************************)
(* C26: create_sourcemap gives a document with exactly the keys version    *)
(* (3), sources, names, mappings (the groups encoded by encode_mappings)   *)
(* and file (the filename), and with the key sourceRoot exactly when a     *)
(* source root is given.                                                   *)
(***************************************************************************)
C26_Sourcemap ==
    codec.pc = "sourcemap"
        => /\ DOMAIN codec.doc \ {"sourceRoot"}
                  = {"version", "sources", "names", "mappings", "file"}
           /\ codec.doc["version"] = 3
           /\ codec.doc["sources"] = codec.args.sources
           /\ codec.doc["names"] = codec.args.names
           /\ codec.doc["mappings"] = encode_mappings(codec.args.mappings)
           /\ codec.doc["file"] = codec.args.filename
           /\ "sourceRoot" \in DOMAIN codec.doc
                  <=> codec.args.source_root # None
           /\ "sourceRoot" \in DOMAIN codec.doc
                  => Some(codec.doc["sourceRoot"]) = codec.args.source_root

\* test_create_sourcemap, with no source root
C26_Witness ==
    /\ codec.pc = "sourcemap"
    /\ codec.args.source_root = None
    /\ codec.args.mappings = <<<<<<6, 0, 0, 6>>>>, <<>>>>
    /\ DOMAIN codec.doc = {"version", "sources", "names", "mappings", "file"}
    /\ codec.doc["mappings"] = <<"M", "A", "A", "M", ";">>
    /\ codec.doc["file"] = "hello.min.js"


(***************************************************************************)
(* Two calls of walk with one Dispatcher, pulled in turn by their caller   *)
(* in any order.  The first call is in the variables of the walk, the      *)
(* second call is the record other_walk.                                   *)
(***************************************************************************)
\* the dispatchers shared: the one of the test with its handlers, and one
\* of a Block with handlers for single markers and for combinations
SharedDispatchers ==
    {<<Dispatcher(FullDefinitions, "simple_token_maker",
                  ("Space" :> "simple_space"), <<>>,
                  ("Declare" :> "declare") @@ ("Resolve" :> "replace"),
                  ("$" :> "jq") @@ ("a" :> "x")),
       {1, 47, 70}>>,
     <<Dispatcher(BlockDefinitions(<<"Indent", "Newline">>),
                  "simple_token_maker", SingleHandlers,
                  (<<"Indent", "Newline">> :> "indent_newline")
                  @@ (<<"Indent", "Newline", "Dedent">> :> "collapse"),
                  <<>>, <<>>),
       {60, 61}>>}

\* a dispatcher and the nodes of the two calls
SharedInputs ==
    UNION {{<<shared[1], first, second>> :
               first \in shared[2], second \in shared[2]} :
           shared \in SharedDispatchers}

\* the layout buffer and the record of the last chunk are those of another
\* call
StateOfOtherCall(w, o) ==
    [w EXCEPT !.layout_rule_chunks = o.layout_rule_chunks,
              !.last_chunk = o.last_chunk]

\* what a call of walk reads and writes while another call o is suspended:
\* layout_rule_chunks and last_chunk are local variables of the call
StateOfCall(w, o) == w

SharedInit ==
    \E input \in SharedInputs :
       /\ IsWalk(InitWalk(input[1], input[2]))
       /\ other_walk = InitWalk(input[1], input[3])
       /\ codec = NoCodec

\* the second call is pulled
OtherWalk ==
    /\ other_walk.pc \notin {"done", "error"}
    /\ other_walk' = Step(StateOfCall(other_walk, W))
    /\ UNCHANGED <<dispatcher, root, gen, layout_rule_chunks, last_chunk,
                   chunk, batch, prev_text, pc, out, tokens_handled,
                   layouts_handled, declared_vars, deferred_handled,
                   shortener, calls, codec>>

SharedNext == Next \/ OtherWalk

SharedSpec == SharedInit /\ [][SharedNext]_vars

(***************************************************************************)
(* C27: two calls of walk that share one Dispatcher, with handlers that    *)
(* keep no state, each yield the chunks and call the handlers that the     *)
(* call yields and calls when it is pulled alone, however the pulls are    *)
(* interleaved; the layout buffer and the last chunk are those of one      *)
(* call, and no call changes the tables of the Dispatcher.                 *)
(***************************************************************************)
RECURSIVE Alone(_)
\* the states of a call of walk pulled alone to its end
Alone(w) ==
    IF w.pc \in {"done", "error"} THEN {w} ELSE {w} \cup Alone(Step(w))

\* what a call has yielded and which handlers it has called
Trace(w) ==
    [pc |-> w.pc, out |-> w.out, tokens_handled |-> w.tokens_handled,
     layouts_handled |-> w.layouts_handled,
     deferred_handled |-> w.deferred_handled,
     declared_vars |-> w.declared_vars,
     layout_rule_chunks |-> w.layout_rule_chunks,
     last_chunk |-> w.last_chunk]

AsWhenAlone(w) ==
    Trace(w) \in {Trace(alone) : alone \in Alone(InitWalk(w.dispatcher, w.root))}

WaitingScopeMarkers ==
    SelectSeq(layout_rule_chunks,
              LAMBDA c : c.rule \in {<<"PushScope">>, <<"PopScope">>})

C28_ScopeHandlersFirst ==
    (/\ pc = "walk" /\ gen # <<>>
     /\ Head(gen).e = "deferred"
     /\ Head(gen).handler \in {"Shortener.declare", "Shortener.resolve"})
        => WaitingScopeMarkers = <<>>


(***************************************************************************)
(* C29: a batch of buffered markers is split, in the order of the queue,   *)
(* into runs that one combined handler each is called for, and after them  *)
(* a tail of markers that are handled one by one by the handler of the     *)
(* marker (or the no-op); every marker of the batch is covered by one call *)
(* and no more, the calls are in the order of the queue, and with no       *)
(* combination registered every marker is handled on its own.              *)
(***************************************************************************)
\* the places in the rule order of the markers of the buffer
BatchPlaces == [k \in 1..Len(layout_rule_chunks) |-> layout_rule_chunks[k].idxs[1]]

\* the calls of layout handlers for the batch: those made and those to make
BatchCalls ==
    LET made == SelectSeq(layouts_handled,
                          LAMBDA l : \E k \in 1..Len(BatchPlaces) :
                                        BatchPlaces[k] = l.idxs[1])
    IN  [j \in 1..Len(made) |->
            [rule |-> made[j].rule, handler |-> made[j].handler,
             combined |-> made[j].combined, idxs |-> made[j].idxs]]
        \o [j \in 1..Len(batch) |->
               [rule |-> batch[j].rule, handler |-> batch[j].handler,
                combined |-> batch[j].combined, idxs |-> batch[j].idxs]]

C29_BatchSplit ==
    pc \in {"layouts", "remaining"} =>
        /\ Flatten([j \in 1..Len(BatchCalls) |-> BatchCalls[j].idxs])
               = BatchPlaces
        /\ \A j \in 1..Len(BatchCalls) :
              IF BatchCalls[j].combined
              THEN /\ \A i \in 1..j : BatchCalls[i].combined
                   /\ BatchCalls[j].handler
                          = Dispatcher_call_tuple(dispatcher, BatchCalls[j].rule)
                   /\ BatchCalls[j].handler # NotImplemented
                   /\ Len(BatchCalls[j].rule) = Len(BatchCalls[j].idxs)
              ELSE \E k \in 1..Len(layout_rule_chunks) :
                      /\ BatchCalls[j].idxs = layout_rule_chunks[k].idxs
                      /\ BatchCalls[j].rule = layout_rule_chunks[k].rule
                      /\ BatchCalls[j].handler = layout_rule_chunks[k].handler
        /\ dispatcher.layout_tuples = <<>>
              => \A j \in 1..Len(BatchCalls) : ~BatchCalls[j].combined

\* Indent, Newline, Dedent before '}': a combined handler was called for
\* (Indent, Newline) and then the handler of Dedent
C29_Witness ==
    /\ pc = "layouts" /\ batch = <<>>
    /\ Len(layout_rule_chunks) = 3
    /\ Len(BatchCalls) = 2
    /\ BatchCalls[1].combined /\ BatchCalls[1].rule = <<"Indent", "Newline">>
    /\ ~BatchCalls[2].combined /\ BatchCalls[2].handler = "dedent"


(***************************************************************************)
(* C30: a combined handler is called with the node that queued the first   *)
(* marker of its combination, also when the combination is not the first   *)
(* of its batch and the markers of the batch were queued by several nodes. *)
(***************************************************************************)
\* the node that queued the marker at a place of the rule order
QueuingNode(idx) ==
    LET queued == SelectSeq(Stream, LAMBDA ev : ev.e = "layout" /\ ev.idx = idx)
    IN  queued[1].node

C30_NodeOfCombination ==
    \A j \in 1..Len(layouts_handled) :
       layouts_handled[j].combined
           => layouts_handled[j].node = QueuingNode(layouts_handled[j].idxs[1])


(***************************************************************************)
(* C31: in a walk with the handlers of a Shortener over definitions in     *)
(* which a PushScope is followed later by a PopScope, every call           *)
(* pop_scope(dispatcher, node) removes the Scope that push_scope made for  *)
(* that node; a call of pop_scope with the stack empty raises an error     *)
(* and leaves the map of the scopes as it is.                              *)
(***************************************************************************)
\* process_layouts is about to call pop_scope
PopScopeIsNext ==
    /\ pc \in {"layouts", "remaining"} /\ batch # <<>>
    /\ Head(batch).handler = "pop_scope"

\* the call removes the stack top, which is the Scope of the node given
PopsTheScopeOfTheNode ==
    (PopScopeIsNext /\ dispatcher.definitions \in ScopeDefinitions)
        => LET node == Head(batch).node
               top == current_scope(shortener)
           IN  /\ top # 0
               /\ shortener.heap[top].node = node
               /\ node \in DOMAIN shortener.scopes
               /\ shortener.scopes[node] = top
               /\ shortener'.stack
                      = SubSeq(shortener.stack, 1, Len(shortener.stack) - 1)
               /\ shortener'.raised = ""
               /\ calls'.pop_scope = calls.pop_scope + 1

\* the call with the stack empty raises and changes neither map nor stack
PopOfEmptyStackRaises ==
    (PopScopeIsNext /\ shortener.stack = <<>>)
        => /\ shortener'.raised = "IndexError"
           /\ pc' = "error"
           /\ shortener'.scopes = shortener.scopes
           /\ shortener'.stack = <<>>
           /\ shortener'.heap = shortener.heap
           /\ calls'.pop_scope = calls.pop_scope

C31_PopScope == [][PopsTheScopeOfTheNode /\ PopOfEmptyStackRaises]_vars

\* function(){ function(){ a a } }: the Scope of the inner function has
\* been removed and the Scope of the outer function is the stack top
C31_Witness ==
    /\ root \in {200, 201}
    /\ dispatcher.definitions \in ScopeDefinitions
    /\ calls.push_scope = 2 /\ calls.pop_scope = 1
    /\ Len(shortener.stack) = 1
    /\ shortener.heap[shortener.stack[1]].node = 201
    /\ shortener.scopes[202] = 2
    /\ layouts_handled[Len(layouts_handled)].handler = "pop_scope"
    /\ layouts_handled[Len(layouts_handled)].node = 202

====
